---------------------------- MODULE Spec2Model ----------------------------
(***************************************************************************)
(* Model of the osmtools extraction engine (src/pbfextractor/pbf.rs and    *)
(* src/pbfextractor/metrics.rs): the edge filters, the metric index, the    *)
(* two-pass load_graph with its id collector thread, and the edge list      *)
(* simplification (delete_duplicate_edges, delete_dominated_edges).         *)
(*                                                                         *)
(* Cost values (f64 in the code) are modelled as integers.  Every value the *)
(* metrics of the repository produce is finite, so partial_cmp never        *)
(* returns None and == / <= on f64 behave as on integers.                   *)
(***************************************************************************)
EXTENDS Integers, Sequences, FiniteSets, TLC

VARIABLES
    call,          \* function harness: the function applied and its arguments
    ret,           \* function harness: the value returned, NoRet before the call
    loader,        \* the Loader built by OsmLoaderBuilder::build
    pbf,           \* the extract: its ways and its point entities, in file order
    pc,            \* the stage of load_graph the orchestrator is in
    todo,          \* way pass: the ways (indices) not yet handed to process_way
    inflight,      \* way pass: the process_way calls under way, with their
                   \* loop index and local edges vector
    returned,      \* way pass: the vector each finished process_way returned
    id_channel,    \* the ids queued in the mpsc channel of node ids
    id_sender,     \* whether id_sender is still alive (not dropped)
    collector,     \* the collector thread: its position and its local set
    set_channel,   \* the channel carrying the finished set back
    id_set,        \* the set the orchestrator received
    nodes,         \* load_graph's nodes vector
    edges,         \* load_graph's edges vector
    skipped_nodes, \* the counter of points outside the bounding region
    failure        \* why load_graph panicked, "none" while it has not

fnVars == <<call, ret>>
loadVars ==
    <<loader, pbf, pc, todo, inflight, returned, id_channel, id_sender,
      collector, set_channel, id_set, nodes, edges, skipped_nodes, failure>>
vars == <<fnVars, loadVars>>

\* Option::None of the tag map lookups (tags.get(key))
Absent == "<absent>"
\* No value returned yet
NoRet == [stage |-> "none"]

-----------------------------------------------------------------------------
(* Bounds of the model *)

\* longest edge list handed to the simplification functions
MaxEdges == 3

\* sample cost values of the edge lists
CostValues == {1, 2, 3}

-----------------------------------------------------------------------------
(* pbf.rs: Edge, delete_duplicate_edges, delete_dominated_edges *)

\* Edge::new : all cost slots start at 0.0
Edge_new(source, dest, cost_count) ==
    [source |-> source, dest |-> dest, costs |-> [i \in 1..cost_count |-> 0]]

Min(a, b) == IF a <= b THEN a ELSE b

\* the index range of a.iter().zip(b.iter())
ZipRange(a, b) == 1..Min(Len(a), Len(b))

\* impl PartialEq for Edge
Edge_eq(lhs, rhs) ==
    /\ lhs.source = rhs.source
    /\ lhs.dest = rhs.dest
    /\ \A k \in ZipRange(lhs.costs, rhs.costs) : lhs.costs[k] = rhs.costs[k]

\* usize::cmp / f64::partial_cmp on finite values
Cmp(a, b) == IF a < b THEN "Less" ELSE IF a > b THEN "Greater" ELSE "Equal"

\* the loop over the zipped cost vectors in the sort closure: the first
\* comparison that is not Equal decides, Equal if there is none
RECURSIVE CostsCmp(_, _, _)
CostsCmp(c1, c2, k) ==
    IF k > Min(Len(c1), Len(c2)) THEN "Equal"
    ELSE IF Cmp(c1[k], c2[k]) # "Equal" THEN Cmp(c1[k], c2[k])
    ELSE CostsCmp(c1, c2, k + 1)

\* the closure given to edges.sort_by
SortCmp(e1, e2) ==
    IF Cmp(e1.source, e2.source) # "Equal" THEN Cmp(e1.source, e2.source)
    ELSE IF Cmp(e1.dest, e2.dest) # "Equal" THEN Cmp(e1.dest, e2.dest)
    ELSE CostsCmp(e1.costs, e2.costs, 1)

\* insert e behind the last element that is not Greater than e
RECURSIVE InsertSorted(_, _)
InsertSorted(sorted, e) ==
    IF sorted = <<>> THEN <<e>>
    ELSE IF SortCmp(sorted[Len(sorted)], e) = "Greater"
         THEN Append(InsertSorted(SubSeq(sorted, 1, Len(sorted) - 1), e),
                     sorted[Len(sorted)])
         ELSE Append(sorted, e)

\* a plausible slip: the closure compares the endpoints only
RECURSIVE SortBy_EndpointsOnly(_)
SortBy_EndpointsOnly(s) ==
    IF Len(s) <= 1 THEN s
    ELSE LET sorted == SortBy_EndpointsOnly(SubSeq(s, 1, Len(s) - 1))
             e == s[Len(s)]
             before == { i \in 1..Len(sorted) :
                            \/ sorted[i].source < e.source
                            \/ sorted[i].source = e.source /\ sorted[i].dest <= e.dest }
         IN  SubSeq(sorted, 1, Cardinality(before)) \o <<e>>
                \o SubSeq(sorted, Cardinality(before) + 1, Len(sorted))

\* slice::sort_by : a stable sort
RECURSIVE SortBy(_)
SortBy(s) ==
    IF s = <<>> THEN <<>>
    ELSE InsertSorted(SortBy(SubSeq(s, 1, Len(s) - 1)), s[Len(s)])

\* Vec::dedup : drop every element equal to the element kept before it
RECURSIVE Dedup(_)
Dedup(s) ==
    IF Len(s) <= 1 THEN s
    ELSE LET front == Dedup(SubSeq(s, 1, Len(s) - 1))
         IN  IF Edge_eq(front[Len(front)], s[Len(s)]) THEN front
             ELSE Append(front, s[Len(s)])

\* a plausible slip: sorted, but the duplicates are kept
delete_duplicate_edges_NoDedup(es) == SortBy(es)

delete_duplicate_edges(es) == Dedup(SortBy(es))

\* a plausible slip: any in place of all
AnyLeq(first, second) ==
    \E k \in ZipRange(first, second) : first[k] <= second[k]

\* all(|(f, s)| f <= s) over the zipped cost vectors
AllLeq(first, second) ==
    \A k \in ZipRange(first, second) : first[k] <= second[k]

\* a plausible slip: the endpoints of the two neighbours are not compared
DominatedIndices_NoEndpointCheck(es) ==
    { i \in 2..Len(es) : AllLeq(es[i - 1].costs, es[i].costs) }

\* the BTreeSet of indices (0-based in the code, 1-based here) marked for removal
DominatedIndices(es) ==
    { i \in 2..Len(es) :
        /\ es[i - 1].source = es[i].source
        /\ es[i - 1].dest = es[i].dest
        /\ AllLeq(es[i - 1].costs, es[i].costs) }

\* into_iter().enumerate().filter(|(i, _)| !indices.contains(i))
RECURSIVE KeepUnmarked(_, _, _)
KeepUnmarked(es, indices, n) ==
    IF n = 0 THEN <<>>
    ELSE IF n \in indices THEN KeepUnmarked(es, indices, n - 1)
    ELSE Append(KeepUnmarked(es, indices, n - 1), es[n])

\* a plausible slip: nothing is pruned
delete_dominated_edges_Keep(es) == es

delete_dominated_edges(es) ==
    KeepUnmarked(es, DominatedIndices(es), Len(es))

-----------------------------------------------------------------------------
(* metrics.rs: the edge filters *)

\* tags.get(key): the value of the key, None (Absent) when the way has no such tag
TagsGet(tags, key) == IF key \in DOMAIN tags THEN tags[key] ELSE Absent

\* a plausible slip: highway=service is let through
CarEdgeFilter_is_invalid_NoService(tags) ==
    TagsGet(tags, "highway") \in
        { "footway", "cycleway", "path", "pedestrian", "steps", "track",
          "corridor", "elevator", "escalator", "proposed", "construction",
          "bridleway", "abandoned", "platform", "raceway", "rest_area", Absent }

CarEdgeFilter_is_invalid(tags) ==
    LET street_type == TagsGet(tags, "highway")
    IN  street_type \in
            { "footway", "cycleway", "path", "pedestrian", "steps", "track",
              "corridor", "elevator", "escalator", "proposed", "construction",
              "bridleway", "abandoned", "platform", "raceway", "rest_area",
              "service", Absent }

\* a plausible slip: a cycleway tag overrides bicycle=no
BicycleEdgeFilter_is_invalid_CyclewayFirst(tags) ==
    LET bicycle_tag == TagsGet(tags, "bicycle")
        street_type == TagsGet(tags, "highway")
        side_walk == TagsGet(tags, "sidewalk")
    IN  IF TagsGet(tags, "cycleway") # Absent
           \/ (bicycle_tag # Absent /\ bicycle_tag # "no") THEN FALSE
        ELSE IF bicycle_tag = "no" THEN TRUE
        ELSE IF side_walk # Absent /\ side_walk # "no" THEN FALSE
        ELSE street_type \in
            { "motorway", "steps", "corridor", "elevator", "escalator", "motor",
              "proposed", "abandoned", "platform", "raceway", "motorway_link",
              "trunk", "trunk_link", "rest_area", "construction", "service",
              Absent }

BicycleEdgeFilter_is_invalid(tags) ==
    LET bicycle_tag == TagsGet(tags, "bicycle")
        street_type == TagsGet(tags, "highway")
        side_walk == TagsGet(tags, "sidewalk")
        has_side_walk == IF side_walk # Absent THEN side_walk # "no" ELSE FALSE
    IN  IF bicycle_tag = "no" THEN TRUE
        ELSE IF TagsGet(tags, "cycleway") # Absent
                \/ (bicycle_tag # Absent /\ bicycle_tag # "no") THEN FALSE
        ELSE IF has_side_walk THEN FALSE
        ELSE street_type \in
            { "motorway", "steps", "corridor", "elevator", "escalator", "motor",
              "proposed", "abandoned", "platform", "raceway", "motorway_link",
              "trunk", "trunk_link", "rest_area", "construction", "service",
              Absent }

\* a plausible slip: the sidewalk override is skipped
WalkingEdgeFilter_is_invalid_NoSidewalk(tags) ==
    LET walking_tag == TagsGet(tags, "walking")
        street_type == TagsGet(tags, "highway")
    IN  IF walking_tag = "no" THEN TRUE
        ELSE street_type \in
            { "motorway", "motorway_link", "motor", "proposed", "construction",
              "abandoned", "platform", "raceway", "trunk", "trunk_link", Absent }

WalkingEdgeFilter_is_invalid(tags) ==
    LET walking_tag == TagsGet(tags, "walking")
        street_type == TagsGet(tags, "highway")
        side_walk == TagsGet(tags, "sidewalk")
        has_side_walk == IF side_walk # Absent THEN side_walk # "no" ELSE FALSE
    IN  IF walking_tag = "no" THEN TRUE
        ELSE IF has_side_walk THEN FALSE
        ELSE street_type \in
            { "motorway", "motorway_link", "motor", "proposed", "construction",
              "abandoned", "platform", "raceway", "trunk", "trunk_link", Absent }

\* EdgeFilter::is_invalid of the loader's filter (Loader<Filter>)
is_invalid(edge_filter, tags) ==
    CASE edge_filter = "car" -> CarEdgeFilter_is_invalid(tags)
      [] edge_filter = "bicycle" -> BicycleEdgeFilter_is_invalid(tags)
      [] edge_filter = "walking" -> WalkingEdgeFilter_is_invalid(tags)

-----------------------------------------------------------------------------
(* metrics.rs: the metric framework.  An f64 cost v is stored as the integer *)
(* 4 * v (quarter units), which is exact for every tag and node metric value *)
(* and for the product of two of them.                                       *)

\* Option<T> of a builder field: None, Some(v)
None == <<>>
Some(v) == <<v>>

\* the metric!(T) names and the two format!(...) names
EdgeCount == [kind |-> "tag", type |-> "EdgeCount"]
BicycleUnsuitability == [kind |-> "tag", type |-> "BicycleUnsuitability"]
Distance_ == [kind |-> "node", type |-> "Distance_"]
TravelTime(distance, speed) ==
    [kind |-> "cost", type |-> "TravelTime", distance |-> distance, speed |-> speed]
UnsuitDistMetric(distance, unsuitability) ==
    [kind |-> "cost", type |-> "UnsuitDistMetric", distance |-> distance,
     unsuitability |-> unsuitability]

\* Metric::name
Metric_name(m) ==
    CASE m.type = "TravelTime" ->
            "TravelTime: " \o m.distance.type \o " / " \o m.speed.type
      [] m.type = "UnsuitDistMetric" ->
            "UnsuitDistMetric: " \o m.distance.type \o " / " \o m.unsuitability.type
      [] OTHER -> m.type

\* the metrics a derived metric may be built from, and all metrics of the model
BaseMetrics == {BicycleUnsuitability, Distance_, EdgeCount}
CostMetricUniverse ==
    { TravelTime(d, x) : d \in BaseMetrics, x \in BaseMetrics }
        \cup { UnsuitDistMetric(d, x) : d \in BaseMetrics, x \in BaseMetrics }
MetricUniverse == BaseMetrics \cup CostMetricUniverse

\* Ord for String on metric names: the names differ in their first letter
\* (B < D < E < T < U) or, for two derived names of one type, first in the
\* distance name and then in the second name
TypeRank(type) ==
    CASE type = "BicycleUnsuitability" -> 1
      [] type = "Distance_" -> 2
      [] type = "EdgeCount" -> 3
      [] type = "TravelTime" -> 4
      [] type = "UnsuitDistMetric" -> 5
SortKey(m) ==
    CASE m.type = "TravelTime" ->
            <<TypeRank(m.type), TypeRank(m.distance.type), TypeRank(m.speed.type)>>
      [] m.type = "UnsuitDistMetric" ->
            <<TypeRank(m.type), TypeRank(m.distance.type),
              TypeRank(m.unsuitability.type)>>
      [] OTHER -> <<TypeRank(m.type), 0, 0>>
SortKeyOfName(name) ==
    SortKey(CHOOSE m \in MetricUniverse : Metric_name(m) = name)
StringLess(a, b) ==
    LET x == SortKeyOfName(a)
        y == SortKeyOfName(b)
    IN  \/ x[1] < y[1]
        \/ x[1] = y[1] /\ x[2] < y[2]
        \/ x[1] = y[1] /\ x[2] = y[2] /\ x[3] < y[3]

\* BicycleUnsuitability::calc
BicycleUnsuitability_calc(tags) ==
    LET bicycle_tag == TagsGet(tags, "bicycle")
        side_walk == TagsGet(tags, "sidewalk")
        street_type == TagsGet(tags, "highway")
    IN  IF TagsGet(tags, "cycleway") # Absent
           \/ (bicycle_tag # Absent /\ bicycle_tag # "no") THEN 2      \* 0.5
        ELSE IF side_walk = "yes" THEN 4                               \* 1.0
        ELSE CASE street_type \in {"primary", "primary_link"} -> 20    \* 5.0
               [] street_type \in {"secondary", "secondary_link"} -> 16
               [] street_type \in {"tertiary", "tertiary_link", "road",
                                   "bridleway"} -> 12
               [] street_type \in {"unclassified", "residential",
                                   "traffic_island"} -> 8
               [] street_type \in {"living_street", "service", "track",
                                   "platform", "pedestrian", "path",
                                   "footway"} -> 4
               [] street_type = "cycleway" -> 2
               [] OTHER -> 24                                          \* 6.0

\* TagMetric::calc : EdgeCount is the constant 1.0
TagMetric_calc(m, tags) ==
    IF m.type = "EdgeCount" THEN 4 ELSE BicycleUnsuitability_calc(tags)

\* Distance_::calc : the planar distance of the two projected nodes; the nodes
\* of the model lie on one meridian, lat metres from the origin
Distance_calc(source, target) ==
    4 * (IF source.lat >= target.lat THEN source.lat - target.lat
         ELSE target.lat - source.lat)

Ok(v) == [ok |-> TRUE, value |-> v]
Err(e) == [ok |-> FALSE, error |-> e]

\* dist / MetersPerSecond::from(speed) of the units module, which is not
\* among the sources: metres / (km/h / 3.6) in f64, here in quarter seconds;
\* x / 0.0 is infinite or NaN, every other quotient of the model is finite
Seconds_of(dist, speed) ==
    IF speed = 0 THEN [finite |-> FALSE, seconds |-> 0]
    ELSE [finite |-> TRUE, seconds |-> (144 * dist) \div (10 * speed)]

\* a plausible slip: a non-finite time becomes the cost 0.0
TravelTime_calc_ZeroOnNonFinite(m, costs, map) ==
    IF Metric_name(m.distance) \notin DOMAIN map THEN Err("UnknownMetric")
    ELSE IF Metric_name(m.speed) \notin DOMAIN map THEN Err("UnknownMetric")
    ELSE Ok(Seconds_of(costs[map[Metric_name(m.distance)] + 1],
                       costs[map[Metric_name(m.speed)] + 1]).seconds)

\* TravelTime::calc
TravelTime_calc(m, costs, map) ==
    IF Metric_name(m.distance) \notin DOMAIN map THEN Err("UnknownMetric")
    ELSE IF Metric_name(m.speed) \notin DOMAIN map THEN Err("UnknownMetric")
    ELSE LET dist == costs[map[Metric_name(m.distance)] + 1]
             speed == costs[map[Metric_name(m.speed)] + 1]
             time == Seconds_of(dist, speed)
         IN  IF time.finite THEN Ok(time.seconds)
             ELSE [ok |-> FALSE, error |-> "NonFiniteTime", dist |-> dist,
                   speed |-> speed]

\* a plausible slip: an unregistered unsuitability name reads slot 0
UnsuitDistMetric_calc_DefaultSlot(m, costs, map) ==
    IF Metric_name(m.distance) \notin DOMAIN map THEN Err("UnknownMetric")
    ELSE LET dist == costs[map[Metric_name(m.distance)] + 1]
             unsuitability ==
                IF Metric_name(m.unsuitability) \in DOMAIN map
                THEN costs[map[Metric_name(m.unsuitability)] + 1] ELSE costs[1]
         IN  Ok((unsuitability * dist) \div 4)

\* UnsuitDistMetric::calc
UnsuitDistMetric_calc(m, costs, map) ==
    IF Metric_name(m.distance) \notin DOMAIN map THEN Err("UnknownMetric")
    ELSE IF Metric_name(m.unsuitability) \notin DOMAIN map THEN Err("UnknownMetric")
    ELSE LET dist == costs[map[Metric_name(m.distance)] + 1]
             unsuitability == costs[map[Metric_name(m.unsuitability)] + 1]
         IN  Ok((unsuitability * dist) \div 4)

\* CostMetric::calc
CostMetric_calc(m, costs, map) ==
    IF m.type = "TravelTime" THEN TravelTime_calc(m, costs, map)
    ELSE UnsuitDistMetric_calc(m, costs, map)

-----------------------------------------------------------------------------
(* pbf.rs: OsmLoaderBuilder::build, Edge::costs *)

\* the for loops of build: metrics_indices.insert(m.name(), index); index += 1
RECURSIVE InsertNames(_, _, _)
InsertNames(map, metrics, index) ==
    IF metrics = <<>> THEN map
    ELSE InsertNames((Metric_name(Head(metrics)) :> index) @@ map,
                     Tail(metrics), index + 1)

OrEmpty(list) == IF list = None THEN <<>> ELSE list[1]

\* a plausible slip: the node metrics are numbered before the tag metrics
build_indices_NodeFirst(builder) ==
    LET tag_metrics == OrEmpty(builder.tag_metrics)
        node_metrics == OrEmpty(builder.node_metrics)
        cost_metrics == OrEmpty(builder.cost_metrics)
        m1 == InsertNames(<<>>, node_metrics, 0)
        m2 == InsertNames(m1, tag_metrics, Len(node_metrics))
    IN  InsertNames(m2, cost_metrics, Len(tag_metrics) + Len(node_metrics))

\* build, lines 124-155: the Metric Index
build_indices(builder) ==
    LET tag_metrics == OrEmpty(builder.tag_metrics)
        node_metrics == OrEmpty(builder.node_metrics)
        cost_metrics == OrEmpty(builder.cost_metrics)
        m1 == InsertNames(<<>>, tag_metrics, 0)
        m2 == InsertNames(m1, node_metrics, Len(tag_metrics))
    IN  InsertNames(m2, cost_metrics, Len(tag_metrics) + Len(node_metrics))

\* the coordinate reference systems Proj::new_known_crs knows
KnownCrs == {"EPSG:4839", "EPSG:4326"}

\* OsmLoaderBuilder::reverse_edges, the setter extractor.rs calls (lines 123
\* and 155). Its body is not among the sources; after the specification it
\* configures the loader to treat every way as bidirectional.
reverse_edges(builder, value) == [builder EXCEPT !.reverse_edges = Some(value)]

\* the flag as build hands it to the loader; unset, the ways keep their
\* one-way status
build_reverse_edges(builder) ==
    IF builder.reverse_edges = None THEN FALSE ELSE builder.reverse_edges[1]

\* OsmLoaderBuilder::build
build(builder) ==
    IF builder.target_crs = None
    THEN [result |-> "panic", message |-> "Requires CRS to be set for any calculation"]
    ELSE IF builder.target_crs[1] \notin KnownCrs
    THEN [result |-> "panic", message |-> "Error in creation of Projection"]
    ELSE IF builder.pbf_path = None THEN [result |-> "Err", source |-> "pbf_path"]
    ELSE IF builder.edge_filter = None THEN [result |-> "Err", source |-> "edge_filter"]
    ELSE [result |-> "Ok",
          loader |->
            [ pbf_path |-> builder.pbf_path[1],
              edge_filter |-> builder.edge_filter[1],
              internal_metrics |-> IF builder.internal_metrics = None THEN {}
                                   ELSE builder.internal_metrics[1],
              filter_geometry |-> builder.filter_geometry,
              tag_metrics |-> OrEmpty(builder.tag_metrics),
              node_metrics |-> OrEmpty(builder.node_metrics),
              cost_metrics |-> OrEmpty(builder.cost_metrics),
              proj_to_m |-> builder.target_crs[1],
              reverse_edges |-> build_reverse_edges(builder),
              metrics_indices |-> build_indices(builder) ]]

\* Loader::internal_metric_count
internal_metric_count(ld) ==
    Len(ld.node_metrics) + Len(ld.cost_metrics) + Len(ld.tag_metrics)

\* the number of values of a usize; the width is scaled down to 16 bits, the
\* counts of the model are far below either
UsizeModulus == 2^16

\* Loader::metric_count: the outcomes of the usize subtraction. When it would
\* go below zero a build with overflow checks (debug) panics and a build
\* without them (release) wraps around.
metric_count(ld) ==
    LET total == internal_metric_count(ld)
        internal == Cardinality(ld.internal_metrics)
    IN  IF internal <= total
        THEN { [result |-> "Ok", value |-> total - internal] }
        ELSE { [result |-> "panic", message |-> "attempt to subtract with overflow"],
               [result |-> "Ok", value |-> (UsizeModulus + total - internal) % UsizeModulus] }

\* BTreeMap::iter : the keys in ascending String order
RECURSIVE KeysInOrder(_)
KeysInOrder(names) ==
    IF names = {} THEN <<>>
    ELSE LET first == CHOOSE n \in names : \A o \in names \ {n} : StringLess(n, o)
         IN  <<first>> \o KeysInOrder(names \ {first})

\* the loop of Edge::costs over the keys
RECURSIVE CostsOfKeys(_, _, _, _)
CostsOfKeys(costs, keys, indices, internal_only) ==
    IF keys = <<>> THEN <<>>
    ELSE IF Head(keys) \in internal_only
         THEN CostsOfKeys(costs, Tail(keys), indices, internal_only)
         ELSE <<costs[indices[Head(keys)] + 1]>>
                \o CostsOfKeys(costs, Tail(keys), indices, internal_only)

\* Edge::costs
Edge_costs(edge, indices, internal_only) ==
    CostsOfKeys(edge.costs, KeysInOrder(DOMAIN indices), indices, internal_only)

-----------------------------------------------------------------------------
(* pbf.rs: Loader::process_way, is_one_way and the node and edge passes *)

\* a plausible slip: an explicit oneway=no or false is not looked at
is_one_way_NoExplicitNo(way) ==
    LET one_way == TagsGet(way.tags, "oneway")
        highway == TagsGet(way.tags, "highway")
        junction == TagsGet(way.tags, "junction")
    IN  IF one_way \in {"yes", "true"} THEN TRUE
        ELSE \/ highway = "motorway"
             \/ junction = "roundabout" \/ junction = "circular"

\* Loader::is_one_way
is_one_way(way) ==
    LET one_way == TagsGet(way.tags, "oneway")
        highway == TagsGet(way.tags, "highway")
        junction == TagsGet(way.tags, "junction")
    IN  IF one_way \in {"yes", "true"} THEN TRUE
        ELSE IF one_way \in {"no", "false"} THEN FALSE
        ELSE \/ highway = "motorway"
             \/ junction = "roundabout" \/ junction = "circular"

\* the one-way status process_way works with (line 322): a loader configured
\* with reverse_edges treats every way as bidirectional
way_is_one_way(ld, way) == IF ld.reverse_edges THEN FALSE ELSE is_one_way(way)

\* process_way, lines 317-321: (slot, value) of every tag metric of the way
tag_costs(ld, way) ==
    [ k \in 1..Len(ld.tag_metrics) |->
        <<ld.metrics_indices[Metric_name(ld.tag_metrics[k])],
          TagMetric_calc(ld.tag_metrics[k], way.tags)>> ]

\* for (i, t) in &tag_costs { edge.costs[*i] = *t }
RECURSIVE WriteTagCosts(_, _, _)
WriteTagCosts(costs, tcs, k) ==
    IF k > Len(tcs) THEN costs
    ELSE WriteTagCosts([costs EXCEPT ![tcs[k][1] + 1] = tcs[k][2]], tcs, k + 1)

\* Edge::new followed by the tag cost loop
NewEdge(ld, way, source, dest) ==
    LET edge == Edge_new(source, dest, internal_metric_count(ld))
    IN  [edge EXCEPT !.costs = WriteTagCosts(edge.costs, tag_costs(ld, way), 1)]

\* a plausible slip: the reverse edge is pushed for one-way ways too
SegmentEdges_AlwaysBoth(ld, way, index) ==
    << NewEdge(ld, way, way.nodes[index + 1], way.nodes[index + 2]),
       NewEdge(ld, way, way.nodes[index + 2], way.nodes[index + 1]) >>

\* a plausible slip: the reverse edge is never pushed
SegmentEdges_ForwardOnly(ld, way, index) ==
    << NewEdge(ld, way, way.nodes[index + 1], way.nodes[index + 2]) >>

\* one iteration of the loop of process_way (lines 325-344), index from 0:
\* the edges pushed for the segment nodes[index] -> nodes[index + 1]
SegmentEdges(ld, way, index) ==
    IF way_is_one_way(ld, way)
    THEN << NewEdge(ld, way, way.nodes[index + 1], way.nodes[index + 2]) >>
    ELSE << NewEdge(ld, way, way.nodes[index + 1], way.nodes[index + 2]),
            NewEdge(ld, way, way.nodes[index + 2], way.nodes[index + 1]) >>

\* a plausible slip: the set is sent as soon as the queue runs empty
ReceiverExhausted_EmptyQueue == id_channel = <<>>

\* `for id in ids` ends when the queue is empty and every sender is dropped
ReceiverExhausted == id_channel = <<>> /\ ~id_sender

\* Polygon::contains of the bounding region: the region of the model is an
\* open interval of the meridian the nodes lie on
Contains(region, lat) == region.south < lat /\ lat < region.north

\* a plausible slip: the id set is not consulted
RECURSIVE NodePass_NoIdCheck(_, _, _)
NodePass_NoIdCheck(ld, ids, points) ==
    IF points = <<>> THEN [nodes |-> <<>>, skipped |-> 0]
    ELSE LET n == Head(points)
             rest == NodePass_NoIdCheck(ld, ids, Tail(points))
         IN  IF ld.filter_geometry # None
                /\ ~(ld.filter_geometry[1].south < n.lat
                        /\ n.lat < ld.filter_geometry[1].north)
             THEN [rest EXCEPT !.skipped = @ + 1]
             ELSE [rest EXCEPT !.nodes =
                       <<[osm_id |-> n.id, lat |-> n.lat, long |-> 0]>> \o @]

\* the filter_map closure of the node pass, applied in file order
RECURSIVE NodePass(_, _, _)
NodePass(ld, ids, points) ==
    IF points = <<>> THEN [nodes |-> <<>>, skipped |-> 0]
    ELSE LET n == Head(points)
             rest == NodePass(ld, ids, Tail(points))
         IN  IF n.id \notin ids THEN rest
             ELSE IF ld.filter_geometry # None
                     /\ ~Contains(ld.filter_geometry[1], n.lat)
                  THEN [rest EXCEPT !.skipped = @ + 1]
                  ELSE [rest EXCEPT !.nodes =
                            <<[osm_id |-> n.id, lat |-> n.lat, long |-> 0]>> \o @]

\* a plausible slip: the positions are counted from 1
NodeMap_OneBased(ns) ==
    [ id \in { ns[i].osm_id : i \in 1..Len(ns) } |->
        LET i == CHOOSE i \in 1..Len(ns) :
                    /\ ns[i].osm_id = id
                    /\ \A j \in (i + 1)..Len(ns) : ns[j].osm_id # id
        IN  <<i, ns[i]>> ]

\* the HashMap osm_id -> (index, &Node) collected from nodes.iter().enumerate();
\* a later node replaces an earlier one with the same osm_id
NodeMap(ns) ==
    [ id \in { ns[i].osm_id : i \in 1..Len(ns) } |->
        LET i == CHOOSE i \in 1..Len(ns) :
                    /\ ns[i].osm_id = id
                    /\ \A j \in (i + 1)..Len(ns) : ns[j].osm_id # id
        IN  <<i - 1, ns[i]>> ]

\* a plausible slip: only the source of an edge is looked up
RECURSIVE KeepKnownEndpoints_SourceOnly(_, _)
KeepKnownEndpoints_SourceOnly(es, keys) ==
    IF es = <<>> THEN <<>>
    ELSE IF Head(es).source \in keys
         THEN <<Head(es)>> \o KeepKnownEndpoints_SourceOnly(Tail(es), keys)
         ELSE KeepKnownEndpoints_SourceOnly(Tail(es), keys)

\* load_graph, lines 249-262: keep the edges whose two endpoints are in the map
RECURSIVE KeepKnownEndpoints(_, _)
KeepKnownEndpoints(es, keys) ==
    IF es = <<>> THEN <<>>
    ELSE IF Head(es).source \in keys /\ Head(es).dest \in keys
         THEN <<Head(es)>> \o KeepKnownEndpoints(Tail(es), keys)
         ELSE KeepKnownEndpoints(Tail(es), keys)

\* NodeMetric::calc : Distance_ is the only node metric
NodeMetric_calc(m, source, dest) == Distance_calc(source, dest)

\* a plausible slip: the slot of a node metric is taken to be its position in
\* node_metrics
RECURSIVE WriteNodeCosts_ByPosition(_, _, _, _, _)
WriteNodeCosts_ByPosition(ld, costs, source, dest, k) ==
    IF k > Len(ld.node_metrics) THEN costs
    ELSE WriteNodeCosts_ByPosition(ld,
            [costs EXCEPT ![k] = NodeMetric_calc(ld.node_metrics[k], source, dest)],
            source, dest, k + 1)

\* the node metric loop of rename_node_ids_and_calculate_node_metrics
RECURSIVE WriteNodeCosts(_, _, _, _, _)
WriteNodeCosts(ld, costs, source, dest, k) ==
    IF k > Len(ld.node_metrics) THEN costs
    ELSE WriteNodeCosts(ld,
            [costs EXCEPT ![ld.metrics_indices[Metric_name(ld.node_metrics[k])] + 1] =
                NodeMetric_calc(ld.node_metrics[k], source, dest)],
            source, dest, k + 1)

\* map[&e.source] / map[&e.dest] panics on an id that is no key of the map
RenamePanics(es, map) ==
    \E i \in 1..Len(es) : es[i].source \notin DOMAIN map \/ es[i].dest \notin DOMAIN map

\* a plausible slip: the ids are replaced, the node metrics are not computed
Rename_IdsOnly(ld, es, map) ==
    [ i \in 1..Len(es) |->
        [source |-> map[es[i].source][1], dest |-> map[es[i].dest][1],
         costs |-> es[i].costs] ]

\* rename_node_ids_and_calculate_node_metrics, when no lookup panics
Rename(ld, es, map) ==
    [ i \in 1..Len(es) |->
        LET s == map[es[i].source]
            d == map[es[i].dest]
        IN  [source |-> s[1], dest |-> d[1],
             costs |-> WriteNodeCosts(ld, es[i].costs, s[2], d[2], 1)] ]

\* the inner loop of calculate_cost_metrics on one edge: the first Err ends it
RECURSIVE CostLoop(_, _, _)
CostLoop(ld, costs, k) ==
    IF k > Len(ld.cost_metrics) THEN Ok(costs)
    ELSE LET c == ld.cost_metrics[k]
             value == CostMetric_calc(c, costs, ld.metrics_indices)
         IN  IF ~value.ok THEN value
             ELSE CostLoop(ld,
                    [costs EXCEPT ![ld.metrics_indices[Metric_name(c)] + 1] = value.value],
                    k + 1)

\* calculate_cost_metrics: the edges with their derived costs, or the error the
\* first failing calc(..).unwrap() panics with
RECURSIVE CalculateCostMetrics(_, _)
CalculateCostMetrics(ld, es) ==
    IF es = <<>> THEN Ok(<<>>)
    ELSE LET first == CostLoop(ld, Head(es).costs, 1)
         IN  IF ~first.ok THEN first
             ELSE LET rest == CalculateCostMetrics(ld, Tail(es))
                  IN  IF ~rest.ok THEN rest
                      ELSE Ok(<<[Head(es) EXCEPT !.costs = first.value]>> \o rest.value)

-----------------------------------------------------------------------------
(* node_pbf.rs: the POI classifier and PoiLoader *)

\* the static (key, value) tables; the ligatures U+FB01 and U+FB02 in five
\* values of SHOPS_QUERY are spelled out, so that e.g. shop=florist is not in
\* the table, as in the source
PARKS_ATTRIBUTES ==
    { <<"leisure", "park">>, <<"leisure", "dog park">> }

GROCERY_ATTRIBUTES ==
    { <<"shop", "alcohol">>, <<"shop", "bakery">>, <<"shop", "beverages">>,
      <<"shop", "brewing supplies">>, <<"shop", "butcher">>,
      <<"shop", "cheese">>, <<"shop", "chocolate">>, <<"shop", "coffee">>,
      <<"shop", "confectionery">>, <<"shop", "convenience">>,
      <<"shop", "deli">>, <<"shop", "dairy">>, <<"shop", "farm">>,
      <<"shop", "frozen food">>, <<"shop", "greengrocer">>,
      <<"shop", "health food">>, <<"shop", "ice-cream">>,
      <<"shop", "pasta">>, <<"shop", "pastry">>, <<"shop", "seafood">>,
      <<"shop", "spices">>, <<"shop", "tea">>, <<"shop", "water">>,
      <<"shop", "supermarket">>, <<"shop", "department store">>,
      <<"shop", "general">>, <<"shop", "kiosk">>, <<"shop", "mall">> }

EDUCATION_ATTRIBUTES ==
    { <<"amenity", "college">>, <<"amenity", "driving school">>,
      <<"amenity", "kindergarten">>, <<"amenity", "language school">>,
      <<"amenity", "music school">>, <<"amenity", "school">>,
      <<"amenity", "university">> }

HEALTH_ATTRIBUTES ==
    { <<"amenity", "clinic">>, <<"amenity", "dentist">>,
      <<"amenity", "doctors">>, <<"amenity", "hospital">>,
      <<"amenity", "nursing home">>, <<"amenity", "pharmacy">>,
      <<"amenity", "social facility">> }

BANKS_ATTRIBUTES ==
    { <<"amenity", "atm">>, <<"amenity", "bank">>,
      <<"amenity", "bureau de change">>, <<"amenity", "post office">> }

SUSTENANCE_ATTRIBUTES ==
    { <<"amenity", "restaurant">>, <<"amenity", "pub">>,
      <<"amenity", "bar">>, <<"amenity", "cafe">>,
      <<"amenity", "fast-food">>, <<"amenity", "food court">>,
      <<"amenity", "ice-cream">>, <<"amenity", "biergarten">> }

SHOPS_QUERY ==
    { <<"shop", "department store">>, <<"shop", "general">>,
      <<"shop", "kiosk">>, <<"shop", "mall">>, <<"shop", "wholesale">>,
      <<"shop", "baby goods">>, <<"shop", "bag">>, <<"shop", "boutique">>,
      <<"shop", "clothes">>, <<"shop", "fabric">>,
      <<"shop", "fashion accessories">>, <<"shop", "jewelry">>,
      <<"shop", "leather">>, <<"shop", "watches">>, <<"shop", "wool">>,
      <<"shop", "charity">>, <<"shop", "secondhand">>,
      <<"shop", "variety store">>, <<"shop", "beauty">>,
      <<"shop", "chemist">>, <<"shop", "cosmetics">>, <<"shop", "erotic">>,
      <<"shop", "hairdresser">>, <<"shop", "hairdresser supply">>,
      <<"shop", "hearing aids">>, <<"shop", "herbalist">>,
      <<"shop", "massage">>, <<"shop", "medical supply">>,
      <<"shop", "nutrition supplements">>, <<"shop", "optician">>,
      <<"shop", "perfumery">>, <<"shop", "tattoo">>, <<"shop", "agrarian">>,
      <<"shop", "appliance">>, <<"shop", "bathroom furnishing">>,
      <<"shop", "do-it-yourself">>, <<"shop", "electrical">>,
      <<"shop", "energy">>, <<"shop", "<U+FB01>replace">>,
      <<"shop", "<U+FB02>orist">>, <<"shop", "garden centre">>,
      <<"shop", "garden furniture">>, <<"amenity", "fuel">>,
      <<"shop", "glaziery">>, <<"shop", "groundskeeping">>,
      <<"shop", "hardware">>, <<"shop", "houseware">>,
      <<"shop", "locksmith">>, <<"shop", "paint">>, <<"shop", "security">>,
      <<"shop", "trade">>, <<"shop", "antiques">>, <<"shop", "bed">>,
      <<"shop", "candles">>, <<"shop", "carpet">>, <<"shop", "curtain">>,
      <<"shop", "doors">>, <<"shop", "<U+FB02>ooring">>,
      <<"shop", "furniture">>, <<"shop", "household linen">>,
      <<"shop", "interior decoration">>, <<"shop", "kitchen">>,
      <<"shop", "lighting">>, <<"shop", "tiles">>,
      <<"shop", "window blind">>, <<"shop", "computer">>,
      <<"shop", "electronics">>, <<"shop", "hi<U+FB01>">>,
      <<"shop", "mobile phone">>, <<"shop", "radio-technics">>,
      <<"shop", "vacuum cleaner">>, <<"shop", "bicycle">>,
      <<"shop", "boat">>, <<"shop", "car">>, <<"shop", "repair">>,
      <<"shop", "car parts">>, <<"shop", "caravan">>, <<"shop", "fuel">>,
      <<"shop", "<U+FB01>shing">>, <<"shop", "golf">>, <<"shop", "hunting">>,
      <<"shop", "jet ski">>, <<"shop", "military surplus">>,
      <<"shop", "motorcycle">>, <<"shop", "outdoor">>,
      <<"shop", "scuba diving">>, <<"shop", "ski">>,
      <<"shop", "snowmobile">>, <<"shop", "swimming pool">>,
      <<"shop", "trailer">>, <<"shop", "tyres">>, <<"shop", "art">>,
      <<"shop", "collector">>, <<"shop", "craft">>, <<"shop", "frame">>,
      <<"shop", "games">>, <<"shop", "model">>, <<"shop", "music">>,
      <<"shop", "musical instrument">>, <<"shop", "photo">>,
      <<"shop", "camera">>, <<"shop", "trophy">>, <<"shop", "video">>,
      <<"shop", "videogames">>, <<"shop", "anime">>, <<"shop", "books">>,
      <<"shop", "gift">>, <<"shop", "lottery">>, <<"shop", "newsagent">>,
      <<"shop", "stationery">>, <<"shop", "ticket">>,
      <<"shop", "bookmaker">>, <<"shop", "cannabis">>,
      <<"shop", "copy node">>, <<"shop", "drycleaning">>,
      <<"shop", "e-cigarette">>, <<"shop", "funeral directors">>,
      <<"shop", "laundry">>, <<"shop", "moneylender">>, <<"shop", "party">>,
      <<"shop", "pawnbroker">>, <<"shop", "pet">>, <<"shop", "grooming">>,
      <<"shop", "pest control">>, <<"shop", "pyrotechnics">>,
      <<"shop", "religion">>, <<"shop", "storage rental">>,
      <<"shop", "tobacco">>, <<"shop", "toys">>, <<"shop", "travel agency">>,
      <<"shop", "vacant">>, <<"shop", "weapons">>, <<"shop", "outpost">> }

\* Tags::contains(k, v)
TagsContain(tags, k, v) == TagsGet(tags, k) = v

\* TABLE.iter().any(|(k, v)| n.tags.contains(k, v))
AnyContained(table, tags) == \E kv \in table : TagsContain(tags, kv[1], kv[2])

\* a plausible slip: the general retail table is consulted before the grocery
\* table
identify_type_ShopsFirst(n) ==
    IF AnyContained(PARKS_ATTRIBUTES, n.tags) THEN Some("Parks")
    ELSE IF AnyContained(BANKS_ATTRIBUTES, n.tags) THEN Some("Banks")
    ELSE IF AnyContained(HEALTH_ATTRIBUTES, n.tags) THEN Some("Health")
    ELSE IF AnyContained(EDUCATION_ATTRIBUTES, n.tags) THEN Some("Education")
    ELSE IF AnyContained(SUSTENANCE_ATTRIBUTES, n.tags) THEN Some("Sustenance")
    ELSE IF AnyContained(SHOPS_QUERY, n.tags) THEN Some("Shops")
    ELSE IF AnyContained(GROCERY_ATTRIBUTES, n.tags) THEN Some("Grocery")
    ELSE None

\* identify_type
identify_type(n) ==
    IF AnyContained(PARKS_ATTRIBUTES, n.tags) THEN Some("Parks")
    ELSE IF AnyContained(BANKS_ATTRIBUTES, n.tags) THEN Some("Banks")
    ELSE IF AnyContained(HEALTH_ATTRIBUTES, n.tags) THEN Some("Health")
    ELSE IF AnyContained(EDUCATION_ATTRIBUTES, n.tags) THEN Some("Education")
    ELSE IF AnyContained(SUSTENANCE_ATTRIBUTES, n.tags) THEN Some("Sustenance")
    ELSE IF AnyContained(GROCERY_ATTRIBUTES, n.tags) THEN Some("Grocery")
    ELSE IF AnyContained(SHOPS_QUERY, n.tags) THEN Some("Shops")
    ELSE None

\* Proj::convert to the planar CRS: the points of the model lie on one
\* meridian, lat metres from the origin
Proj_convert(lat) == lat

\* f64::sqrt, on the squares the model meets
Sqrt(x) == CHOOSE r \in 0..x : r * r = x

\* PoiLoaderBuilder::build
PoiLoaderBuilder_build(builder) ==
    IF builder.target_crs = None
    THEN [result |-> "panic", message |-> "Requires CRS to be set for any calculation"]
    ELSE IF builder.target_crs[1] \notin KnownCrs
    THEN [result |-> "panic", message |-> "Error in creation of Projection"]
    ELSE IF builder.nodes_to_match = None
    THEN [result |-> "panic", message |-> "Nodes are necessary for matching"]
    ELSE IF builder.pbf_path = None THEN [result |-> "Err", source |-> "pbf_path"]
    ELSE LET nodes_to_match == builder.nodes_to_match[1]
         IN  [result |-> "Ok",
              loader |->
                [ pbf_path |-> builder.pbf_path[1],
                  filter_geometry |-> builder.filter_geometry,
                  proj_to_m |-> builder.target_crs[1],
                  nodes_to_match |-> nodes_to_match,
                  kdtree |-> [ k \in 1..Len(nodes_to_match) |->
                                 Proj_convert(nodes_to_match[k].lat) ] ]]

SquaredEuclidean(a, b) == (a - b) * (a - b)

\* kdtree.nearest_one::<SquaredEuclidean>(query): the results the tree may
\* give, one for each item at the least distance
nearest_one(kdtree, query) ==
    { [item |-> i - 1, distance |-> SquaredEuclidean(kdtree[i], query)] :
        i \in { j \in 1..Len(kdtree) :
                  \A k \in 1..Len(kdtree) :
                      SquaredEuclidean(kdtree[j], query)
                          <= SquaredEuclidean(kdtree[k], query) } }

\* a plausible slip: the squared distance is stored
filter_map_poi_Squared(ld, n, nearest_node) ==
    LET osm_nearest_node == ld.nodes_to_match[nearest_node.item + 1]
    IN  IF ld.filter_geometry # None /\ ~Contains(ld.filter_geometry[1], n.lat)
        THEN None
        ELSE IF identify_type(n) = None THEN None
        ELSE Some([ osm_id |-> n.id, lat |-> n.lat, long |-> 0,
                    nearest_osm_node |-> osm_nearest_node.osm_id,
                    dist_to_nearest |-> nearest_node.distance,
                    poi_type |-> identify_type(n)[1] ])

\* the filter_map closure of PoiLoader::load_graph (lines 188-207) on a point
\* entity and its nearest reference node
filter_map_poi(ld, n, nearest_node) ==
    LET osm_nearest_node == ld.nodes_to_match[nearest_node.item + 1]
    IN  IF ld.filter_geometry # None /\ ~Contains(ld.filter_geometry[1], n.lat)
        THEN None
        ELSE IF identify_type(n) = None THEN None
        ELSE Some([ osm_id |-> n.id, lat |-> n.lat, long |-> 0,
                    nearest_osm_node |-> osm_nearest_node.osm_id,
                    dist_to_nearest |-> Sqrt(nearest_node.distance),
                    poi_type |-> identify_type(n)[1] ])

-----------------------------------------------------------------------------
(* utils/nearest_node.rs: add_nearest_node_to_geo_df.  A frame is the       *)
(* sequence of its rows, a row the record of its columns.                   *)

\* the EPSG codes proj4rs::Proj::from_epsg_code knows, of those the model uses
KnownEpsg == {4326, 4839}

\* Point::to_radians: a change of unit, linear in the angle
to_radians(lat) == 2 * lat

\* proj4rs::transform::transform from EPSG:4326: the identity onto itself; a
\* projected CRS gives planar metres, of which the model's meridian has three
\* to the unit of angle
transform(target_crs, p) == IF target_crs = 4326 THEN p ELSE 3 * p

\* a plausible slip: the reference points are not transformed
reference_tree_Untransformed(nodes_to_match, target_crs) ==
    [ k \in 1..Len(nodes_to_match) |-> to_radians(nodes_to_match[k].lat) ]

\* lines 15-27: the reference points, in radians, transformed, as a k-d tree
reference_tree(nodes_to_match, target_crs) ==
    [ k \in 1..Len(nodes_to_match) |->
        transform(target_crs, to_radians(nodes_to_match[k].lat)) ]

\* lines 48-54: the two series are added to the frame as columns
with_columns(geo_df, id, dist) ==
    [ k \in 1..Len(geo_df) |->
        ("nearest_node_osm_id" :> id[k]) @@ ("nearest_node_distance" :> dist[k])
            @@ geo_df[k] ]

-----------------------------------------------------------------------------
(* utils/sources.rs: get_bbbike_source.  A String is the sequence of its    *)
(* characters, so that to_lowercase and format! work on the text itself.    *)

AsciiUpper ==
    << "A","B","C","D","E","F","G","H","I","J","K","L","M",
       "N","O","P","Q","R","S","T","U","V","W","X","Y","Z" >>
AsciiLower ==
    << "a","b","c","d","e","f","g","h","i","j","k","l","m",
       "n","o","p","q","r","s","t","u","v","w","x","y","z" >>

\* char::to_lowercase on the characters of the model (ASCII)
char_to_lowercase(c) ==
    IF \E i \in 1..26 : AsciiUpper[i] = c
    THEN AsciiLower[CHOOSE i \in 1..26 : AsciiUpper[i] = c]
    ELSE c

\* str::to_lowercase
to_lowercase(s) == [ i \in 1..Len(s) |-> char_to_lowercase(s[i]) ]

\* const CITIES: the catalogue, in source order
CITIES ==
    << <<"A","a","c","h","e","n">>, <<"A","a","r","h","u","s">>,
      <<"A","d","e","l","a","i","d","e">>, <<"A","l","b","u","q","u","e","r","q","u","e">>,
      <<"A","l","e","x","a","n","d","r","i","a">>, <<"A","m","s","t","e","r","d","a","m">>,
      <<"A","n","t","w","e","r","p","e","n">>, <<"A","r","n","h","e","m">>,
      <<"A","u","c","k","l","a","n","d">>, <<"A","u","g","s","b","u","r","g">>,
      <<"A","u","s","t","i","n">>, <<"B","a","g","h","d","a","d">>, <<"B","a","k","u">>,
      <<"B","a","l","a","t","o","n">>, <<"B","a","m","b","e","r","g">>,
      <<"B","a","n","g","k","o","k">>, <<"B","a","r","c","e","l","o","n","a">>,
      <<"B","a","s","e","l">>, <<"B","e","i","j","i","n","g">>, <<"B","e","i","r","u","t">>,
      <<"B","e","r","k","e","l","e","y">>, <<"B","e","r","l","i","n">>, <<"B","e","r","n">>,
      <<"B","i","e","l","e","f","e","l","d">>, <<"B","i","r","m","i","n","g","h","a","m">>,
      <<"B","o","c","h","u","m">>, <<"B","o","g","o","t","a">>, <<"B","o","m","b","a","y">>,
      <<"B","o","n","n">>, <<"B","o","r","d","e","a","u","x">>, <<"B","o","u","l","d","e","r">>,
      <<"B","r","a","n","d","e","n","b","u","r","g","H","a","v","e","l">>,
      <<"B","r","a","u","n","s","c","h","w","e","i","g">>, <<"B","r","e","m","e","n">>,
      <<"B","r","e","m","e","r","h","a","v","e","n">>, <<"B","r","i","s","b","a","n","e">>,
      <<"B","r","i","s","t","o","l">>, <<"B","r","n","o">>, <<"B","r","u","e","g","g","e">>,
      <<"B","r","u","e","s","s","e","l">>, <<"B","u","d","a","p","e","s","t">>,
      <<"B","u","e","n","o","s","A","i","r","e","s">>, <<"C","a","i","r","o">>,
      <<"C","a","l","g","a","r","y">>, <<"C","a","m","b","r","i","d","g","e">>,
      <<"C","a","m","b","r","i","d","g","e","M","a">>, <<"C","a","n","b","e","r","r","a">>,
      <<"C","a","p","e","T","o","w","n">>, <<"C","h","e","m","n","i","t","z">>,
      <<"C","h","i","c","a","g","o">>,
      <<"C","l","e","r","m","o","n","t","F","e","r","r","a","n","d">>, <<"C","o","l","m","a","r">>,
      <<"C","o","p","e","n","h","a","g","e","n">>, <<"C","o","r","k">>,
      <<"C","o","r","s","i","c","a">>, <<"C","o","r","v","a","l","l","i","s">>,
      <<"C","o","t","t","b","u","s">>, <<"C","r","a","c","o","w">>,
      <<"C","r","a","t","e","r","L","a","k","e">>, <<"C","u","r","i","t","i","b","a">>,
      <<"C","u","s","c","o">>, <<"D","a","l","l","a","s">>,
      <<"D","a","r","m","s","t","a","d","t">>, <<"D","a","v","i","s">>,
      <<"D","e","n","H","a","a","g">>, <<"D","e","n","v","e","r">>, <<"D","e","s","s","a","u">>,
      <<"D","o","r","t","m","u","n","d">>, <<"D","r","e","s","d","e","n">>,
      <<"D","u","b","l","i","n">>, <<"D","u","e","s","s","e","l","d","o","r","f">>,
      <<"D","u","i","s","b","u","r","g">>, <<"E","d","i","n","b","u","r","g","h">>,
      <<"E","i","n","d","h","o","v","e","n">>, <<"E","m","d","e","n">>,
      <<"E","r","f","u","r","t">>, <<"E","r","l","a","n","g","e","n">>,
      <<"E","u","g","e","n","e">>, <<"F","l","e","n","s","b","u","r","g">>,
      <<"F","o","r","t","C","o","l","l","i","n","s">>, <<"F","r","a","n","k","f","u","r","t">>,
      <<"F","r","a","n","k","f","u","r","t","O","d","e","r">>, <<"F","r","e","i","b","u","r","g">>,
      <<"G","d","a","n","s","k">>, <<"G","e","n","f">>, <<"G","e","n","t">>, <<"G","e","r","a">>,
      <<"G","l","a","s","g","o","w">>, <<"G","l","i","w","i","c","e">>,
      <<"G","o","e","r","l","i","t","z">>, <<"G","o","e","t","e","b","o","r","g">>,
      <<"G","o","e","t","t","i","n","g","e","n">>, <<"G","r","a","z">>,
      <<"G","r","o","n","i","n","g","e","n">>, <<"H","a","l","i","f","a","x">>,
      <<"H","a","l","l","e">>, <<"H","a","m","b","u","r","g">>, <<"H","a","m","m">>,
      <<"H","a","n","n","o","v","e","r">>, <<"H","e","i","l","b","r","o","n","n">>,
      <<"H","e","l","s","i","n","k","i">>, <<"H","e","r","t","o","g","e","n","b","o","s","c","h">>,
      <<"H","u","n","t","s","v","i","l","l","e">>, <<"I","n","n","s","b","r","u","c","k">>,
      <<"I","s","t","a","n","b","u","l">>, <<"J","e","n","a">>,
      <<"J","e","r","u","s","a","l","e","m">>, <<"J","o","h","a","n","n","e","s","b","u","r","g">>,
      <<"K","a","i","s","e","r","s","l","a","u","t","e","r","n">>,
      <<"K","a","r","l","s","r","u","h","e">>, <<"K","a","s","s","e","l">>,
      <<"K","a","t","o","w","i","c","e">>, <<"K","a","u","n","a","s">>, <<"K","i","e","l">>,
      <<"K","i","e","w">>, <<"K","o","b","l","e","n","z">>, <<"K","o","e","l","n">>,
      <<"K","o","n","s","t","a","n","z">>, <<"L","a","P","a","z">>,
      <<"L","a","P","l","a","t","a">>, <<"L","a","k","e","G","a","r","d","a">>,
      <<"L","a","u","s","a","n","n","e">>, <<"L","e","e","d","s">>,
      <<"L","e","i","p","z","i","g">>, <<"L","i","m","a">>, <<"L","i","n","z">>,
      <<"L","i","s","b","o","n">>, <<"L","i","v","e","r","p","o","o","l">>,
      <<"L","j","u","b","l","j","a","n","a">>, <<"L","o","d","z">>, <<"L","o","n","d","o","n">>,
      <<"L","u","e","b","e","c","k">>, <<"L","u","x","e","m","b","u","r","g">>,
      <<"L","y","o","n">>, <<"M","a","a","s","t","r","i","c","h","t">>,
      <<"M","a","d","i","s","o","n">>, <<"M","a","d","r","i","d">>,
      <<"M","a","g","d","e","b","u","r","g">>, <<"M","a","i","n","z">>,
      <<"M","a","l","m","o","e">>, <<"M","a","n","c","h","e","s","t","e","r">>,
      <<"M","a","n","n","h","e","i","m">>, <<"M","a","r","s","e","i","l","l","e">>,
      <<"M","e","l","b","o","u","r","n","e">>, <<"M","e","m","p","h","i","s">>,
      <<"M","e","x","i","c","o","C","i","t","y">>, <<"M","i","a","m","i">>,
      <<"M","o","e","n","c","h","e","n","g","l","a","d","b","a","c","h">>,
      <<"M","o","n","t","e","v","i","d","e","o">>, <<"M","o","n","t","p","e","l","l","i","e","r">>,
      <<"M","o","n","t","r","e","a","l">>, <<"M","o","s","c","o","w">>,
      <<"M","u","e","n","c","h","e","n">>, <<"M","u","e","n","s","t","e","r">>,
      <<"N","e","w","D","e","l","h","i">>, <<"N","e","w","O","r","l","e","a","n","s">>,
      <<"N","e","w","Y","o","r","k","C","i","t","y">>, <<"N","u","e","r","n","b","e","r","g">>,
      <<"O","l","d","e","n","b","u","r","g">>, <<"O","r","a","n","i","e","n","b","u","r","g">>,
      <<"O","r","l","a","n","d","o">>, <<"O","s","l","o">>,
      <<"O","s","n","a","b","r","u","e","c","k">>, <<"O","s","t","r","a","v","a">>,
      <<"O","t","t","a","w","a">>, <<"P","a","d","e","r","b","o","r","n">>,
      <<"P","a","l","m","a">>, <<"P","a","l","o","A","l","t","o">>, <<"P","a","r","i","s">>,
      <<"P","e","r","t","h">>, <<"P","h","i","l","a","d","e","l","p","h","i","a">>,
      <<"P","h","n","o","m","P","e","n","h">>, <<"P","o","r","t","l","a","n","d">>,
      <<"P","o","r","t","l","a","n","d","M","E">>, <<"P","o","r","t","o">>,
      <<"P","o","r","t","o","A","l","e","g","r","e">>, <<"P","o","t","s","d","a","m">>,
      <<"P","o","z","n","a","n">>, <<"P","r","a","g">>,
      <<"P","r","o","v","i","d","e","n","c","e">>, <<"R","e","g","e","n","s","b","u","r","g">>,
      <<"R","i","g","a">>, <<"R","i","o","d","e","J","a","n","e","i","r","o">>,
      <<"R","o","s","t","o","c","k">>, <<"R","o","t","t","e","r","d","a","m">>,
      <<"R","u","e","g","e","n">>, <<"S","a","a","r","b","r","u","e","c","k","e","n">>,
      <<"S","a","c","r","a","m","e","n","t","o">>, <<"S","a","i","g","o","n">>,
      <<"S","a","l","z","b","u","r","g">>, <<"S","a","n","F","r","a","n","c","i","s","c","o">>,
      <<"S","a","n","J","o","s","e">>,
      <<"S","a","n","k","t","P","e","t","e","r","s","b","u","r","g">>,
      <<"S","a","n","t","a","B","a","r","b","a","r","a">>, <<"S","a","n","t","a","C","r","u","z">>,
      <<"S","a","n","t","i","a","g","o">>, <<"S","a","r","a","j","e","w","o">>,
      <<"S","c","h","w","e","r","i","n">>, <<"S","e","a","t","t","l","e">>,
      <<"S","e","o","u","l">>, <<"S","h","e","f","f","i","e","l","d">>,
      <<"S","i","n","g","a","p","o","r","e">>, <<"S","o","f","i","a">>,
      <<"S","t","o","c","k","h","o","l","m">>, <<"S","t","o","c","k","t","o","n">>,
      <<"S","t","r","a","s","s","b","u","r","g">>, <<"S","t","u","t","t","g","a","r","t">>,
      <<"S","u","c","r","e">>, <<"S","y","d","n","e","y">>, <<"S","z","c","z","e","c","i","n">>,
      <<"T","a","l","l","i","n","n">>, <<"T","e","h","r","a","n">>,
      <<"T","i","l","b","u","r","g">>, <<"T","o","k","y","o">>, <<"T","o","r","o","n","t","o">>,
      <<"T","o","u","l","o","u","s","e">>, <<"T","r","o","n","d","h","e","i","m">>,
      <<"T","u","c","s","o","n">>, <<"T","u","r","i","n">>,
      <<"U","l","a","n","B","a","t","o","r">>, <<"U","l","m">>, <<"U","s","e","d","o","m">>,
      <<"U","t","r","e","c","h","t">>, <<"V","a","n","c","o","u","v","e","r">>,
      <<"V","i","c","t","o","r","i","a">>, <<"W","a","r","e","n","M","u","e","r","i","t","z">>,
      <<"W","a","r","s","a","w">>, <<"W","a","s","h","i","n","g","t","o","n","D","C">>,
      <<"W","a","t","e","r","l","o","o">>, <<"W","i","e","n">>, <<"W","r","o","c","l","a","w">>,
      <<"W","u","e","r","z","b","u","r","g">>, <<"W","u","p","p","e","r","t","a","l">>,
      <<"Z","a","g","r","e","b">>, <<"Z","u","e","r","i","c","h">> >>

\* let base_url = "https://download.bbbike.org/osm/bbbike"
base_url ==
    << "h","t","t","p","s",":","/","/","d","o","w","n","l","o","a","d",".",
       "b","b","b","i","k","e",".","o","r","g","/","o","s","m","/","b","b","b","i","k","e" >>
\* let suffix = ".osm.pbf"
suffix == <<".","o","s","m",".","p","b","f">>

\* a plausible slip: the requested name is compared as it is spelled
city_matches_Exact(city_lower, city_name) == city_lower = city_name

\* line 273: if city_lower == city_name.to_lowercase()
city_matches(city_lower, city_name) == city_lower = to_lowercase(city_name)

\* lines 275-284: the match on city_lower, format!("{base_url}/{city}/{city}{suffix}")
bbbike_names(city) ==
    LET city_lower == to_lowercase(city)
        slash == <<"/">>
    IN  IF city_lower = <<"n","e","w","y","o","r","k","c","i","t","y">>
        THEN [ filename |-> city_lower \o suffix,
               url |-> base_url \o slash \o <<"N","e","w","Y","o","r","k">> \o slash
                         \o <<"N","e","w","Y","o","r","k">> \o suffix ]
        ELSE [ filename |-> city_lower \o suffix,
               url |-> base_url \o slash \o city \o slash \o city \o suffix ]

\* the loop over CITIES (lines 271-287): it does not stop at a match, so the
\* variables hold what the last matching city wrote, or their initial values
bbbike_loop(city_name) ==
    LET matching ==
            { k \in 1..Len(CITIES) : city_matches(to_lowercase(CITIES[k]), city_name) }
    IN  IF matching = {}
        THEN [ found |-> FALSE, filename |-> <<>>, url |-> <<>> ]
        ELSE LET last == CHOOSE k \in matching : \A o \in matching : o <= k
             IN  [ found |-> TRUE, filename |-> bbbike_names(CITIES[last]).filename,
                   url |-> bbbike_names(CITIES[last]).url ]

\* get_bbbike_source
get_bbbike_source(city_name) ==
    LET st == bbbike_loop(city_name)
    IN  IF st.found
        THEN [ result |-> "Ok", filename |-> st.filename, url |-> st.url ]
        ELSE [ result |-> "Err", source_name |-> city_name ]

-----------------------------------------------------------------------------
(* The function harness: one call of a pure function on a bounded input *)

\* greatest node id of the extracts
MaxNode == 3
\* most nodes of a way
MaxWayLen == 3

NodeIds == 1..MaxNode

\* the point entity with the given id: the points lie on one meridian
Point(id) == [id |-> id, lat |-> id * id]

\* the point entities of an extract, ascending by id, for the ids present
RECURSIVE Points(_, _)
Points(present, id) ==
    IF id > MaxNode THEN <<>>
    ELSE IF id \in present THEN <<Point(id)>> \o Points(present, id + 1)
    ELSE Points(present, id + 1)

\* the bounding regions: none, and three bands of latitude
Regions ==
    { None, Some([south |-> 0, north |-> 5]), Some([south |-> 2, north |-> 10]),
      Some([south |-> 0, north |-> 100]) }

SampleEdges ==
    { [source |-> 0, dest |-> d, costs |-> <<a, b>>] :
        d \in {0, 1}, a \in CostValues, b \in CostValues }

RECURSIVE SeqsUpTo(_, _)
SeqsUpTo(S, n) ==
    IF n = 0 THEN {<<>>}
    ELSE LET shorter == SeqsUpTo(S, n - 1)
         IN  shorter \cup { Append(s, x) : s \in { t \in shorter : Len(t) = n - 1 }, x \in S }

EdgeListCalls == { [fn |-> "simplify", edges |-> es] : es \in SeqsUpTo(SampleEdges, MaxEdges) }

\* every highway value an edge filter or is_one_way names, and some it does not
HighwayValues ==
    { "motorway", "motorway_link", "trunk", "trunk_link", "primary", "secondary",
      "residential", "living_street", "unclassified", "service", "footway",
      "cycleway", "path", "pedestrian", "steps", "track", "corridor", "elevator",
      "escalator", "proposed", "construction", "bridleway", "abandoned",
      "platform", "raceway", "rest_area", "motor", "no", Absent }

FilterTags ==
    [ highway : HighwayValues,
      bicycle : {Absent, "no", "yes"},
      cycleway : {Absent, "no", "lane"},
      sidewalk : {Absent, "no", "both"},
      walking : {Absent, "no", "yes"} ]

FilterCalls ==
    { [fn |-> "is_invalid", filter |-> f, tags |-> t] :
        f \in {"car", "bicycle", "walking"}, t \in FilterTags }

\* the metric lists a builder is given
TagMetricLists ==
    { None, Some(<<>>), Some(<<EdgeCount>>), Some(<<BicycleUnsuitability>>),
      Some(<<EdgeCount, BicycleUnsuitability>>),
      Some(<<BicycleUnsuitability, EdgeCount>>) }
NodeMetricLists == { None, Some(<<Distance_>>) }
CostMetricLists ==
    { None, Some(<<TravelTime(Distance_, EdgeCount)>>),
      Some(<<UnsuitDistMetric(Distance_, BicycleUnsuitability)>>),
      Some(<<UnsuitDistMetric(Distance_, BicycleUnsuitability),
             TravelTime(Distance_, EdgeCount)>>) }
InternalMetricSets ==
    { None, Some({"Distance_"}), Some({"EdgeCount"}),
      Some({"Distance_", "BicycleUnsuitability"}) }

Builder(tag_metrics, node_metrics, cost_metrics, internal_metrics, edge_filter, filter_geometry) ==
    [ pbf_path |-> Some("city.osm.pbf"),
      edge_filter |-> Some(edge_filter),
      filter_geometry |-> filter_geometry,
      tag_metrics |-> tag_metrics,
      node_metrics |-> node_metrics,
      cost_metrics |-> cost_metrics,
      target_crs |-> Some("EPSG:4839"),
      internal_metrics |-> internal_metrics,
      reverse_edges |-> None ]

MetricBuilders ==
    { Builder(t, n, c, i, "car", None) :
        t \in TagMetricLists, n \in NodeMetricLists, c \in CostMetricLists,
        i \in InternalMetricSets }

\* an edge of the loader whose slot k (from 0) holds base * (k + 1)
SlotCosts(builder, base) ==
    [ k \in 1..internal_metric_count(build(builder).loader) |-> base * k ]

EdgeCostsCalls ==
    { [fn |-> "costs", builder |-> b, costs |-> SlotCosts(b, base)] :
        b \in MetricBuilders, base \in CostValues }

\* builders that register a metric name twice
DuplicateBuilders ==
    { Builder(t, n, c, None, "car", None) :
        t \in { Some(<<EdgeCount, EdgeCount>>),
                Some(<<EdgeCount, BicycleUnsuitability, EdgeCount>>) },
        n \in { None, Some(<<Distance_, Distance_>>) },
        c \in CostMetricLists }

\* builders that lack a required field or name an unknown CRS
IncompleteBuilders ==
    LET b == Builder(Some(<<EdgeCount>>), Some(<<Distance_>>), None, None, "car", None)
    IN  { [b EXCEPT !.target_crs = None], [b EXCEPT !.target_crs = Some("EPSG:0")],
          [b EXCEPT !.pbf_path = None], [b EXCEPT !.edge_filter = None],
          [b EXCEPT !.pbf_path = None, !.edge_filter = None],
          [b EXCEPT !.pbf_path = None, !.target_crs = None] }

\* the slot values of a calc call: 0.0, 0.5, 1.0 and 3.0
CalcValues == {0, 2, 4, 12}

\* the Metric Indices of the builders without cost metrics
CalcMaps ==
    { build_indices(Builder(t, n, None, None, "car", None)) :
        t \in { None, Some(<<EdgeCount>>), Some(<<BicycleUnsuitability>>),
                Some(<<BicycleUnsuitability, EdgeCount>>) },
        n \in NodeMetricLists }

CalcMetrics ==
    { TravelTime(Distance_, EdgeCount), TravelTime(EdgeCount, Distance_),
      TravelTime(Distance_, Distance_),
      UnsuitDistMetric(Distance_, BicycleUnsuitability),
      UnsuitDistMetric(EdgeCount, Distance_) }

\* CostMetric::calc on every cost slice that fits the index
CalcCalls ==
    UNION { { [fn |-> "calc", metric |-> m, costs |-> c, map |-> mp] :
                m \in CalcMetrics, c \in [1..Cardinality(DOMAIN mp) -> CalcValues] } :
            mp \in CalcMaps }

\* loaders with one tag metric in slot 0, a node metric in slot 1 and derived
\* metrics behind them, and one whose derived metric names an unregistered one
CostPassBuilders ==
    { Builder(Some(<<EdgeCount>>), Some(<<Distance_>>),
              Some(<<TravelTime(Distance_, EdgeCount)>>), None, "car", None),
      Builder(Some(<<EdgeCount>>), Some(<<Distance_>>),
              Some(<<TravelTime(EdgeCount, Distance_)>>), None, "car", None),
      Builder(Some(<<BicycleUnsuitability>>), Some(<<Distance_>>),
              Some(<<UnsuitDistMetric(Distance_, BicycleUnsuitability),
                     TravelTime(Distance_, Distance_)>>), None, "car", None),
      Builder(Some(<<BicycleUnsuitability>>), Some(<<Distance_>>),
              Some(<<TravelTime(Distance_, EdgeCount)>>), None, "car", None) }

\* the edges as the renumbering leaves them: the tag and the node slot are
\* written, the derived slots still hold 0.0
CostPassEdges(builder) ==
    { [source |-> 0, dest |-> 1,
       costs |-> [ k \in 1..internal_metric_count(build(builder).loader) |->
                     IF k = 1 THEN t ELSE IF k = 2 THEN n ELSE 0 ]] :
        t \in {0, 4, 12}, n \in {0, 4, 12} }

CostPassCalls ==
    UNION { { [fn |-> "calculate_cost_metrics", builder |-> b, edges |-> es] :
                es \in SeqsUpTo(CostPassEdges(b), 2) \ {<<>>} } :
            b \in CostPassBuilders }

\* the tags identify_type is tried on
ClassifyTags ==
    [ leisure : {Absent, "park", "dog park", "pitch"},
      amenity : {Absent, "bank", "pharmacy", "school", "cafe", "fuel", "bench"},
      shop : {Absent, "kiosk", "bakery", "clothes", "florist", "mall", "wholesale"} ]

ClassifyCalls ==
    { [fn |-> "identify_type", node |-> [id |-> 1, lat |-> 1, tags |-> t]] :
        t \in ClassifyTags }

\* a pharmacy, a bank in a park, a bench
PoiNodeTags ==
    { [leisure |-> Absent, amenity |-> "pharmacy", shop |-> Absent],
      [leisure |-> "park", amenity |-> "bank", shop |-> Absent],
      [leisure |-> Absent, amenity |-> "bench", shop |-> Absent] }

\* the tagged point entities of an extract, ascending by id
RECURSIVE PoiPoints(_, _, _)
PoiPoints(present, tags, id) ==
    IF id > MaxNode THEN <<>>
    ELSE IF id \in present
         THEN <<[id |-> id, lat |-> id * id, tags |-> tags[id]]>>
                \o PoiPoints(present, tags, id + 1)
         ELSE PoiPoints(present, tags, id + 1)

PoiExtracts ==
    { PoiPoints(present, tags, 1) :
        present \in SUBSET NodeIds, tags \in [NodeIds -> PoiNodeTags] }

\* the reference nodes a PoiLoader matches against
Reference(osm_id, lat) == [osm_id |-> osm_id, lat |-> lat, long |-> 0]
ReferenceLists ==
    { << Reference(10, 0) >>,
      << Reference(10, 9), Reference(11, 1) >>,
      << Reference(10, 2), Reference(11, 6), Reference(12, 16) >> }

PoiBuilder(filter_geometry, nodes_to_match) ==
    [ pbf_path |-> Some("city.osm.pbf"),
      filter_geometry |-> filter_geometry,
      target_crs |-> Some("EPSG:4839"),
      nodes_to_match |-> Some(nodes_to_match) ]

PoiLoadCalls ==
    { [fn |-> "poi_load_graph", builder |-> PoiBuilder(region, refs), nodes |-> ns] :
        region \in Regions, refs \in ReferenceLists, ns \in PoiExtracts }

\* the query frames: up to two rows
GeoRows == { [osm_id |-> 100 + lat, lat |-> lat, long |-> 0] : lat \in 0..3 }
GeoFrames == SeqsUpTo(GeoRows, 2)

\* the reference frames: the one of test_adding_nodes_same_crs, one with a
\* query half way between two rows, one of a single row
ReferenceFrames ==
    { << Reference(1, 0), Reference(2, 1), Reference(3, 2) >>,
      << Reference(1, 0), Reference(2, 2) >>,
      << Reference(7, 3) >> }

NearestCalls ==
    { [fn |-> "add_nearest_node_to_geo_df", geo_df |-> g, nodes_to_match |-> n,
       target_crs |-> c] :
        g \in GeoFrames, n \in ReferenceFrames, c \in {4326, 4839, 1} }

\* str::to_uppercase on the characters of the model
to_uppercase(s) ==
    [ i \in 1..Len(s) |->
        IF \E j \in 1..26 : AsciiLower[j] = s[i]
        THEN AsciiUpper[CHOOSE j \in 1..26 : AsciiLower[j] = s[i]]
        ELSE s[i] ]

\* every catalogue name as the catalogue spells it, in lower and in upper
\* case, and names the catalogue does not hold
CityNames ==
    UNION { { CITIES[k], to_lowercase(CITIES[k]), to_uppercase(CITIES[k]) } :
            k \in 1..Len(CITIES) }
        \cup { <<"H","o","g","w","a","r","t","s">>, <<"N","e","w","Y","o","r","k">>,
               <<"n","e","w","y","o","r","k","C","I","T","Y">>, <<"B","e","r","l","i","n"," ">>,
               <<"U","l">>, <<>> }

CityCalls == { [fn |-> "get_bbbike_source", city_name |-> n] : n \in CityNames }

\* metric_count and Edge::costs on a fresh edge of every loader build returns
MetricCountCalls ==
    { [fn |-> "metric_count", builder |-> b] : b \in MetricBuilders \cup DuplicateBuilders }

BuildCalls ==
    { [fn |-> "build", builder |-> b] :
        b \in MetricBuilders \cup DuplicateBuilders \cup IncompleteBuilders }

Calls ==
    EdgeListCalls \cup FilterCalls \cup EdgeCostsCalls \cup BuildCalls
        \cup CalcCalls \cup CostPassCalls \cup ClassifyCalls \cup PoiLoadCalls
        \cup NearestCalls \cup CityCalls \cup MetricCountCalls

\* no load_graph runs while a single function is applied
LoadIdle ==
    /\ loader = build(Builder(None, None, None, None, "car", None)).loader
    /\ pbf = [ways |-> <<>>, nodes |-> <<>>]
    /\ pc = "idle"
    /\ todo = {}
    /\ inflight = <<>>
    /\ returned = <<>>
    /\ id_channel = <<>>
    /\ id_sender = FALSE
    /\ collector = [pc |-> "idle", set |-> {}]
    /\ set_channel = <<>>
    /\ id_set = {}
    /\ nodes = <<>>
    /\ edges = <<>>
    /\ skipped_nodes = 0
    /\ failure = "none"

InitFn ==
    /\ call \in Calls
    /\ ret = NoRet
    /\ LoadIdle

\* load_graph line 271: self.delete_duplicate_edges(&mut edges)
FnDeleteDuplicateEdges ==
    /\ call.fn = "simplify"
    /\ ret = NoRet
    /\ ret' = [stage |-> "dedup", edges |-> delete_duplicate_edges(call.edges)]
    /\ UNCHANGED <<call, loadVars>>

\* load_graph line 272: edges = self.delete_dominated_edges(edges)
FnDeleteDominatedEdges ==
    /\ call.fn = "simplify"
    /\ ret.stage = "dedup"
    /\ ret' = [stage |-> "pruned", dedup |-> ret.edges,
               edges |-> delete_dominated_edges(ret.edges)]
    /\ UNCHANGED <<call, loadVars>>

FnCarIsInvalid ==
    /\ call.fn = "is_invalid" /\ call.filter = "car"
    /\ ret = NoRet
    /\ ret' = [stage |-> "returned", value |-> CarEdgeFilter_is_invalid(call.tags)]
    /\ UNCHANGED <<call, loadVars>>

FnBicycleIsInvalid ==
    /\ call.fn = "is_invalid" /\ call.filter = "bicycle"
    /\ ret = NoRet
    /\ ret' = [stage |-> "returned", value |-> BicycleEdgeFilter_is_invalid(call.tags)]
    /\ UNCHANGED <<call, loadVars>>

FnWalkingIsInvalid ==
    /\ call.fn = "is_invalid" /\ call.filter = "walking"
    /\ ret = NoRet
    /\ ret' = [stage |-> "returned", value |-> WalkingEdgeFilter_is_invalid(call.tags)]
    /\ UNCHANGED <<call, loadVars>>

\* Edge::costs on an edge of a built loader
FnEdgeCosts ==
    /\ call.fn = "costs"
    /\ ret = NoRet
    /\ LET ld == build(call.builder).loader
           edge == [source |-> 0, dest |-> 1, costs |-> call.costs]
       IN  ret' = [stage |-> "returned",
                   value |-> Edge_costs(edge, ld.metrics_indices,
                                        ld.internal_metrics)]
    /\ UNCHANGED <<call, loadVars>>

\* OsmLoaderBuilder::build
FnBuild ==
    /\ call.fn = "build"
    /\ ret = NoRet
    /\ ret' = [stage |-> "returned", value |-> build(call.builder)]
    /\ UNCHANGED <<call, loadVars>>

\* CostMetric::calc
FnCostMetricCalc ==
    /\ call.fn = "calc"
    /\ ret = NoRet
    /\ ret' = [stage |-> "returned",
               value |-> CostMetric_calc(call.metric, call.costs, call.map)]
    /\ UNCHANGED <<call, loadVars>>

\* Loader::calculate_cost_metrics: the edges, or the error of the unwrap
FnCalculateCostMetrics ==
    /\ call.fn = "calculate_cost_metrics"
    /\ ret = NoRet
    /\ ret' = [stage |-> "returned",
               value |-> CalculateCostMetrics(build(call.builder).loader, call.edges)]
    /\ UNCHANGED <<call, loadVars>>

\* identify_type
FnIdentifyType ==
    /\ call.fn = "identify_type"
    /\ ret = NoRet
    /\ ret' = [stage |-> "returned", value |-> identify_type(call.node)]
    /\ UNCHANGED <<call, loadVars>>

\* the position of PoiLoader::load_graph in the entity stream and the records
\* collected so far
PoiProgress ==
    IF ret = NoRet THEN [stage |-> "poi_pass", next |-> 1, pois |-> <<>>] ELSE ret

\* PoiLoader::load_graph, lines 176-207: one point entity goes through the
\* filter_map closure
FnPoiLoadStep ==
    /\ call.fn = "poi_load_graph"
    /\ PoiProgress.stage = "poi_pass"
    /\ PoiProgress.next <= Len(call.nodes)
    /\ LET ld == PoiLoaderBuilder_build(call.builder).loader
           n == call.nodes[PoiProgress.next]
       IN  \E nearest_node \in nearest_one(ld.kdtree, Proj_convert(n.lat)) :
               ret' = [stage |-> "poi_pass", next |-> PoiProgress.next + 1,
                       pois |-> PoiProgress.pois \o filter_map_poi(ld, n, nearest_node)]
    /\ UNCHANGED <<call, loadVars>>

\* PoiLoader::load_graph, lines 212-217: the records are collected and returned
FnPoiLoadReturn ==
    /\ call.fn = "poi_load_graph"
    /\ PoiProgress.stage = "poi_pass"
    /\ PoiProgress.next > Len(call.nodes)
    /\ ret' = [stage |-> "returned", value |-> PoiProgress.pois]
    /\ UNCHANGED <<call, loadVars>>

\* add_nearest_node_to_geo_df, lines 13-14: an unknown EPSG code is returned
\* as the error
FnNearestErr ==
    /\ call.fn = "add_nearest_node_to_geo_df"
    /\ ret = NoRet
    /\ call.target_crs \notin KnownEpsg
    /\ ret' = [stage |-> "returned", value |-> [result |-> "Err"]]
    /\ UNCHANGED <<call, loadVars>>

\* the position of the map over the query rows and the pairs collected so far
NearestProgress ==
    IF ret = NoRet THEN [stage |-> "matching", id |-> <<>>, dist |-> <<>>] ELSE ret

\* lines 33-46: the closure of the map on one query row
FnNearestStep ==
    /\ call.fn = "add_nearest_node_to_geo_df"
    /\ call.target_crs \in KnownEpsg
    /\ NearestProgress.stage = "matching"
    /\ Len(NearestProgress.id) < Len(call.geo_df)
    /\ LET kdtree == reference_tree(call.nodes_to_match, call.target_crs)
           row == call.geo_df[Len(NearestProgress.id) + 1]
           point == transform(call.target_crs, to_radians(row.lat))
       IN  \E nearest_node \in nearest_one(kdtree, point) :
               ret' = [stage |-> "matching",
                       id |-> Append(NearestProgress.id,
                                call.nodes_to_match[nearest_node.item + 1].osm_id),
                       dist |-> Append(NearestProgress.dist,
                                       Sqrt(nearest_node.distance))]
    /\ UNCHANGED <<call, loadVars>>

\* lines 47-54: unzip, and the frame with the two new columns
FnNearestReturn ==
    /\ call.fn = "add_nearest_node_to_geo_df"
    /\ call.target_crs \in KnownEpsg
    /\ NearestProgress.stage = "matching"
    /\ Len(NearestProgress.id) = Len(call.geo_df)
    /\ ret' = [stage |-> "returned",
               value |-> [result |-> "Ok",
                          df |-> with_columns(call.geo_df, NearestProgress.id,
                                              NearestProgress.dist)]]
    /\ UNCHANGED <<call, loadVars>>

\* get_bbbike_source
FnGetBbbikeSource ==
    /\ call.fn = "get_bbbike_source"
    /\ ret = NoRet
    /\ ret' = [stage |-> "returned", value |-> get_bbbike_source(call.city_name)]
    /\ UNCHANGED <<call, loadVars>>

\* Loader::metric_count, and Edge::costs on an edge of the loader
FnMetricCount ==
    /\ call.fn = "metric_count"
    /\ ret = NoRet
    /\ LET ld == build(call.builder).loader
           edge == Edge_new(0, 1, internal_metric_count(ld))
       IN  \E count \in metric_count(ld) :
               ret' = [stage |-> "returned", count |-> count,
                       costs |-> Edge_costs(edge, ld.metrics_indices,
                                            ld.internal_metrics)]
    /\ UNCHANGED <<call, loadVars>>

NextFn ==
    \/ FnEdgeCosts
    \/ FnMetricCount
    \/ FnGetBbbikeSource
    \/ FnNearestErr
    \/ FnNearestStep
    \/ FnNearestReturn
    \/ FnIdentifyType
    \/ FnPoiLoadStep
    \/ FnPoiLoadReturn
    \/ FnBuild
    \/ FnCostMetricCalc
    \/ FnCalculateCostMetrics
    \/ FnDeleteDuplicateEdges
    \/ FnDeleteDominatedEdges
    \/ FnCarIsInvalid
    \/ FnBicycleIsInvalid
    \/ FnWalkingIsInvalid

SpecFn == InitFn /\ [][NextFn]_vars

-----------------------------------------------------------------------------
(* One run of Loader::load_graph: the orchestrator, the process_way calls of  *)
(* the way pass and the collector thread.  A process_way call advances by one *)
(* id_sender.send at a time; the calls of different ways may interleave in    *)
(* any order (the way pass gives no ordering guarantee).                      *)

Tags(highway, oneway, junction, cycleway) ==
    [ highway |-> highway, oneway |-> oneway, junction |-> junction,
      cycleway |-> cycleway, bicycle |-> Absent, sidewalk |-> Absent,
      walking |-> Absent ]

Residential == Tags("residential", Absent, Absent, Absent)
Footway == Tags("footway", Absent, Absent, Absent)

WayTagSets ==
    { Residential, Footway,
      Tags("motorway", Absent, Absent, Absent),
      Tags("residential", "yes", Absent, Absent),
      Tags("motorway", "no", Absent, Absent),
      Tags("primary", Absent, "roundabout", Absent),
      Tags("service", Absent, Absent, "lane"),
      Tags(Absent, Absent, Absent, Absent) }

\* the node lists of a way: one to n node references
NodeLists(n) == SeqsUpTo(NodeIds, n) \ {<<>>}

\* the builder of a cycle-routing graph: unsuitability, distance and their
\* product, the distance being internal
RoutingBuilder(edge_filter, filter_geometry) ==
    Builder(Some(<<BicycleUnsuitability>>), Some(<<Distance_>>),
            Some(<<UnsuitDistMetric(Distance_, BicycleUnsuitability)>>),
            Some({"Distance_"}), edge_filter, filter_geometry)

\* extracts of one way, of any shape and tagging, under each filter
OneWayRuns ==
    { [ pbf |-> [ways |-> <<[nodes |-> ns, tags |-> t]>>, nodes |-> Points(NodeIds, 1)],
        builder |-> RoutingBuilder(f, None) ] :
        ns \in NodeLists(MaxWayLen), t \in WayTagSets, f \in {"car", "bicycle", "walking"} }

\* extracts of two short ways, processed concurrently
ShortWays == { [nodes |-> ns, tags |-> t] : ns \in NodeLists(2), t \in {Residential, Footway} }
TwoWayRuns ==
    { [ pbf |-> [ways |-> <<w1, w2>>, nodes |-> Points(NodeIds, 1)],
        builder |-> RoutingBuilder("car", None) ] :
        w1 \in ShortWays, w2 \in ShortWays }

\* extracts that lack points, with and without a bounding region
Routes ==
    { << [nodes |-> <<1, 2>>, tags |-> Residential] >>,
      << [nodes |-> <<1, 2, 3>>, tags |-> Residential] >>,
      << [nodes |-> <<3, 2>>, tags |-> Footway] >>,
      << [nodes |-> <<1, 2>>, tags |-> Residential],
         [nodes |-> <<2, 3>>, tags |-> Tags("motorway", Absent, Absent, Absent)] >> }
PartialRuns ==
    { [ pbf |-> [ways |-> ws, nodes |-> Points(present, 1)],
        builder |-> RoutingBuilder("car", region) ] :
        ws \in Routes, present \in SUBSET NodeIds, region \in Regions }

\* every metric configuration, on two of the routes
MetricRuns ==
    { [ pbf |-> [ways |-> ws, nodes |-> Points(NodeIds, 1)], builder |-> b ] :
        ws \in { << [nodes |-> <<1, 2>>, tags |-> Residential] >>,
                 << [nodes |-> <<3, 2>>, tags |-> Footway] >> },
        b \in MetricBuilders }

\* every combination of the tags is_one_way reads
DirectionTagSets ==
    { Tags(h, o, j, Absent) :
        h \in {"motorway", "residential"},
        o \in {Absent, "yes", "true", "no", "false", "-1"},
        j \in {Absent, "roundabout", "circular", "jughandle"} }

DirectionWays ==
    { [nodes |-> ns, tags |-> t] : ns \in {<<1, 2>>, <<3, 1, 2>>}, t \in DirectionTagSets }

\* extracts of one way of any direction tagging, for cars and for bicycles
DirectionRuns ==
    { [ pbf |-> [ways |-> <<w>>, nodes |-> Points(NodeIds, 1)],
        builder |-> RoutingBuilder(f, None) ] :
        w \in DirectionWays, f \in {"car", "bicycle"} }

\* the same extracts for a loader built with reverse_edges(true), as
\* _load_osm_walking builds it (extractor.rs, lines 118-125)
ReverseRuns ==
    { [ pbf |-> [ways |-> <<w>>, nodes |-> Points(NodeIds, 1)],
        builder |-> reverse_edges(RoutingBuilder(f, None), TRUE) ] :
        w \in DirectionWays, f \in {"car", "walking"} }

\* two ways for bicycles that run over the same nodes with different tag
\* costs, processed concurrently
SchedulingWays ==
    { [nodes |-> ns, tags |-> t] :
        ns \in {<<1, 2>>, <<2, 1>>, <<1, 2, 3>>}, t \in {Residential, Footway} }
SchedulingRuns ==
    { [ pbf |-> [ways |-> <<w1, w2>>, nodes |-> Points(NodeIds, 1)],
        builder |-> RoutingBuilder("bicycle", None) ] :
        w1 \in SchedulingWays, w2 \in SchedulingWays }

Runs ==
    OneWayRuns \cup TwoWayRuns \cup PartialRuns \cup MetricRuns
        \cup DirectionRuns \cup ReverseRuns \cup SchedulingRuns

\* the state at the start of the way pass: the channel is created and the
\* collector thread spawned (lines 198-202)
Init ==
    /\ call = [fn |-> "load_graph"]
    /\ ret = NoRet
    /\ \E run \in Runs :
        /\ loader = build(run.builder).loader
        /\ pbf = run.pbf
        /\ todo = 1..Len(run.pbf.ways)
    /\ pc = "way_pass"
    /\ inflight = <<>>
    /\ returned = <<>>
    /\ id_channel = <<>>
    /\ id_sender = TRUE
    /\ collector = [pc |-> "collecting", set |-> {}]
    /\ set_channel = <<>>
    /\ id_set = {}
    /\ nodes = <<>>
    /\ edges = <<>>
    /\ skipped_nodes = 0
    /\ failure = "none"

\* the loop index and local edges of the process_way call of way w
Progress(w) ==
    IF w \in DOMAIN inflight THEN inflight[w] ELSE [index |-> 0, edges |-> <<>>]

\* process_way of w is under way, or w is accepted and its call can start
Runnable(w) ==
    \/ w \in DOMAIN inflight
    \/ w \in todo /\ ~is_invalid(loader.edge_filter, pbf.ways[w].tags)

\* process_way, lines 313-315: the filter rejects the way
RejectWay(w) ==
    /\ pc = "way_pass"
    /\ w \in todo
    /\ is_invalid(loader.edge_filter, pbf.ways[w].tags)
    /\ todo' = todo \ {w}
    /\ returned' = (w :> <<>>) @@ returned
    /\ UNCHANGED <<fnVars, loader, pbf, pc, inflight, id_channel, id_sender,
                   collector, set_channel, id_set, nodes, edges, skipped_nodes,
                   failure>>

\* process_way, lines 323-345: one iteration of the loop
WayLoopStep(w) ==
    /\ pc = "way_pass"
    /\ Runnable(w)
    /\ LET way == pbf.ways[w]
           prog == Progress(w)
       IN  /\ prog.index < Len(way.nodes) - 1
           /\ id_channel' = Append(id_channel, way.nodes[prog.index + 1])
           /\ inflight' =
                (w :> [index |-> prog.index + 1,
                       edges |-> prog.edges \o SegmentEdges(loader, way, prog.index)])
                    @@ inflight
    /\ todo' = todo \ {w}
    /\ UNCHANGED <<fnVars, loader, pbf, pc, returned, id_sender, collector,
                   set_channel, id_set, nodes, edges, skipped_nodes, failure>>

\* process_way, lines 347-350: the last id is sent and the edges are returned
\* to flat_map, which load_graph collects into edges
WayReturn(w) ==
    /\ pc = "way_pass"
    /\ Runnable(w)
    /\ LET way == pbf.ways[w]
           prog == Progress(w)
       IN  /\ prog.index = Len(way.nodes) - 1
           /\ id_channel' = Append(id_channel, way.nodes[Len(way.nodes)])
           /\ returned' = (w :> prog.edges) @@ returned
           /\ edges' = edges \o prog.edges
    /\ inflight' = [x \in DOMAIN inflight \ {w} |-> inflight[x]]
    /\ todo' = todo \ {w}
    /\ UNCHANGED <<fnVars, loader, pbf, pc, id_sender, collector, set_channel,
                   id_set, nodes, skipped_nodes, failure>>

\* a plausible slip: the orchestrator goes on to the receive with id_sender
\* still alive
DropSender_KeepSender ==
    /\ pc = "way_pass"
    /\ todo = {}
    /\ DOMAIN inflight = {}
    /\ pc' = "recv"
    /\ UNCHANGED <<fnVars, loader, pbf, todo, inflight, returned, id_channel,
                   id_sender, collector, set_channel, id_set, nodes, edges,
                   skipped_nodes, failure>>

\* load_graph, lines 213-216: every way is processed; drop(id_sender)
DropSender ==
    /\ pc = "way_pass"
    /\ todo = {}
    /\ DOMAIN inflight = {}
    /\ id_sender' = FALSE
    /\ pc' = "recv"
    /\ UNCHANGED <<fnVars, loader, pbf, todo, inflight, returned, id_channel,
                   collector, set_channel, id_set, nodes, edges, skipped_nodes,
                   failure>>

\* collect_node_ids, lines 292-294: the collector takes one id off the channel
CollectorInsert ==
    /\ collector.pc = "collecting"
    /\ id_channel # <<>>
    /\ collector' = [collector EXCEPT !.set = @ \cup {Head(id_channel)}]
    /\ id_channel' = Tail(id_channel)
    /\ UNCHANGED <<fnVars, loader, pbf, pc, todo, inflight, returned, id_sender,
                   set_channel, id_set, nodes, edges, skipped_nodes, failure>>

\* collect_node_ids, lines 295-296: the loop ended; the set is sent back
CollectorSend ==
    /\ collector.pc = "collecting"
    /\ ReceiverExhausted
    /\ set_channel' = Append(set_channel, collector.set)
    /\ collector' = [collector EXCEPT !.pc = "done"]
    /\ UNCHANGED <<fnVars, loader, pbf, pc, todo, inflight, returned, id_channel,
                   id_sender, id_set, nodes, edges, skipped_nodes, failure>>

\* load_graph, line 218: set_receiver.recv() returns the set
RecvIdSet ==
    /\ pc = "recv"
    /\ set_channel # <<>>
    /\ id_set' = Head(set_channel)
    /\ set_channel' = Tail(set_channel)
    /\ pc' = "node_pass"
    /\ UNCHANGED <<fnVars, loader, pbf, todo, inflight, returned, id_channel,
                   id_sender, collector, nodes, edges, skipped_nodes, failure>>

\* load_graph, lines 221-246: the node pass
NodePassStep ==
    /\ pc = "node_pass"
    /\ LET pass == NodePass(loader, id_set, pbf.nodes)
       IN  /\ nodes' = pass.nodes
           /\ skipped_nodes' = pass.skipped
    /\ pc' = IF loader.filter_geometry # None THEN "refilter" ELSE "rename"
    /\ UNCHANGED <<fnVars, loader, pbf, todo, inflight, returned, id_channel,
                   id_sender, collector, set_channel, id_set, edges, failure>>

\* load_graph, lines 249-262: with a bounding region, drop the edges that lost
\* an endpoint
RefilterEdges ==
    /\ pc = "refilter"
    /\ edges' = KeepKnownEndpoints(edges, DOMAIN NodeMap(nodes))
    /\ pc' = "rename"
    /\ UNCHANGED <<fnVars, loader, pbf, todo, inflight, returned, id_channel,
                   id_sender, collector, set_channel, id_set, nodes,
                   skipped_nodes, failure>>

\* load_graph, line 266: rename_node_ids_and_calculate_node_metrics
RenameNodeIds ==
    /\ pc = "rename"
    /\ ~RenamePanics(edges, NodeMap(nodes))
    /\ edges' = Rename(loader, edges, NodeMap(nodes))
    /\ pc' = "cost"
    /\ UNCHANGED <<fnVars, loader, pbf, todo, inflight, returned, id_channel,
                   id_sender, collector, set_channel, id_set, nodes,
                   skipped_nodes, failure>>

\* lines 379-380: the HashMap index panics on an edge endpoint that is no
\* retained node
RenameNodeIdsPanic ==
    /\ pc = "rename"
    /\ RenamePanics(edges, NodeMap(nodes))
    /\ pc' = "panicked"
    /\ failure' = "MissingNode"
    /\ UNCHANGED <<fnVars, loader, pbf, todo, inflight, returned, id_channel,
                   id_sender, collector, set_channel, id_set, nodes, edges,
                   skipped_nodes>>

\* load_graph, line 267: calculate_cost_metrics
CostMetricsStep ==
    /\ pc = "cost"
    /\ CalculateCostMetrics(loader, edges).ok
    /\ edges' = CalculateCostMetrics(loader, edges).value
    /\ pc' = "dedup"
    /\ UNCHANGED <<fnVars, loader, pbf, todo, inflight, returned, id_channel,
                   id_sender, collector, set_channel, id_set, nodes,
                   skipped_nodes, failure>>

\* line 305: c.calc(..).unwrap() panics on the MetricError of a calc
CostMetricsPanic ==
    /\ pc = "cost"
    /\ ~CalculateCostMetrics(loader, edges).ok
    /\ pc' = "panicked"
    /\ failure' = CalculateCostMetrics(loader, edges).error
    /\ UNCHANGED <<fnVars, loader, pbf, todo, inflight, returned, id_channel,
                   id_sender, collector, set_channel, id_set, nodes, edges,
                   skipped_nodes>>

\* load_graph, line 271
DeleteDuplicateEdges ==
    /\ pc = "dedup"
    /\ edges' = delete_duplicate_edges(edges)
    /\ pc' = "prune"
    /\ UNCHANGED <<fnVars, loader, pbf, todo, inflight, returned, id_channel,
                   id_sender, collector, set_channel, id_set, nodes,
                   skipped_nodes, failure>>

\* load_graph, lines 272-275
DeleteDominatedEdges ==
    /\ pc = "prune"
    /\ edges' = delete_dominated_edges(edges)
    /\ pc' = "done"
    /\ UNCHANGED <<fnVars, loader, pbf, todo, inflight, returned, id_channel,
                   id_sender, collector, set_channel, id_set, nodes,
                   skipped_nodes, failure>>

Next ==
    \/ \E w \in 1..Len(pbf.ways) : RejectWay(w)
    \/ \E w \in 1..Len(pbf.ways) : WayLoopStep(w)
    \/ \E w \in 1..Len(pbf.ways) : WayReturn(w)
    \/ DropSender
    \/ CollectorInsert
    \/ CollectorSend
    \/ RecvIdSet
    \/ NodePassStep
    \/ RefilterEdges
    \/ RenameNodeIds
    \/ RenameNodeIdsPanic
    \/ CostMetricsStep
    \/ CostMetricsPanic
    \/ DeleteDuplicateEdges
    \/ DeleteDominatedEdges

Spec == Init /\ [][Next]_vars

\* the runs the handoff is followed on to its end: the extracts that lack
\* points, two ways processed concurrently, and the metric configurations
\* without tag metrics
HandoffRuns ==
    PartialRuns
        \cup { run \in TwoWayRuns : run.pbf.ways[1].nodes = <<1, 2>> }
        \cup { run \in MetricRuns :
                    run.builder.tag_metrics = None /\ run.builder.internal_metrics = None }

FairInit ==
    /\ Init
    /\ \E run \in HandoffRuns : pbf = run.pbf /\ loader = build(run.builder).loader

\* the collector is a thread of its own (spawn, line 290) that the operating
\* system keeps scheduling, and a blocked recv() is woken when a message is
\* queued: neither is postponed for ever while it can take its step
FairSpec ==
    /\ FairInit
    /\ [][Next]_vars
    /\ WF_vars(CollectorInsert)
    /\ WF_vars(CollectorSend)
    /\ WF_vars(RecvIdSet)

-----------------------------------------------------------------------------
(* Properties of build *)

\* the names a builder registers: tag, then node, then cost metrics
RegisteredNames(builder) ==
    LET ms == OrEmpty(builder.tag_metrics) \o OrEmpty(builder.node_metrics)
                \o OrEmpty(builder.cost_metrics)
    IN  [ k \in 1..Len(ms) |-> Metric_name(ms[k]) ]

UniqueNames(names) ==
    \A i, j \in 1..Len(names) : names[i] = names[j] => i = j

BuildReturned == call.fn = "build" /\ ret.stage = "returned"

\* C13: build gives each metric name a slot in the order tag metrics, node
\* metrics, cost metrics, each list in its given order; with unique names the
\* Metric Index is a one-to-one map of the registered names onto 0..n-1, n the
\* number of registered metrics.
C13_SlotOrder ==
    BuildReturned /\ ret.value.result = "Ok" =>
        LET names == RegisteredNames(call.builder)
            indices == ret.value.loader.metrics_indices
            n == Len(names)
        IN  UniqueNames(names) =>
                /\ DOMAIN indices = { names[k] : k \in 1..n }
                /\ \A k \in 1..n : indices[names[k]] = k - 1
                /\ { indices[x] : x \in DOMAIN indices } = 0..(n - 1)
                /\ Cardinality(DOMAIN indices) = n

\* two tag metrics, a node metric and two cost metrics got the slots 0..4
C13_Witness ==
    /\ BuildReturned
    /\ call.builder.tag_metrics = Some(<<BicycleUnsuitability, EdgeCount>>)
    /\ call.builder.node_metrics = Some(<<Distance_>>)
    /\ Len(OrEmpty(call.builder.cost_metrics)) = 2
    /\ ret.value.result = "Ok"
    /\ ret.value.loader.metrics_indices["BicycleUnsuitability"] = 0
    /\ ret.value.loader.metrics_indices["EdgeCount"] = 1
    /\ ret.value.loader.metrics_indices["Distance_"] = 2
    /\ ret.value.loader.metrics_indices[Metric_name(TravelTime(Distance_, EdgeCount))] = 4

\* the required fields a builder leaves unset
MissingFields(builder) ==
    { f \in {"pbf_path", "edge_filter", "target_crs"} : builder[f] = None }

\* C22: build reports every missing required field as a structured error: with
\* pbf_path, edge_filter or target_crs unset it returns Err(LoaderBuildError)
\* naming a missing field, and it returns Ok only when all of them are set.
C22_MissingFieldIsErr ==
    BuildReturned =>
        /\ MissingFields(call.builder) # {} =>
                /\ ret.value.result = "Err"
                /\ ret.value.source \in MissingFields(call.builder)
        /\ ret.value.result = "Ok" => MissingFields(call.builder) = {}

-----------------------------------------------------------------------------
(* Properties of the derived metrics *)

CalcReturned == call.fn = "calc" /\ ret.stage = "returned"

CostPassReturned == call.fn = "calculate_cost_metrics" /\ ret.stage = "returned"

\* the value of the slot the index gives the metric
SlotOf(costs, map, metric) == costs[map[Metric_name(metric)] + 1]

\* the second dependency of a derived metric
SecondOf(m) == IF m.type = "TravelTime" THEN m.speed ELSE m.unsuitability

DependenciesKnown(m, map) ==
    Metric_name(m.distance) \in DOMAIN map /\ Metric_name(SecondOf(m)) \in DOMAIN map

\* the TravelTime metrics of a loader whose two dependencies are registered
TravelTimesOf(ld) ==
    { ld.cost_metrics[k] : k \in { j \in 1..Len(ld.cost_metrics) :
        /\ ld.cost_metrics[j].type = "TravelTime"
        /\ DependenciesKnown(ld.cost_metrics[j], ld.metrics_indices) } }

\* C16: TravelTime::calc fails with NonFiniteTime, carrying the distance and
\* the speed, whenever the speed slot is zero, for any distance including
\* zero; calculate_cost_metrics surfaces the error as a failure and never
\* returns edges with a zero cost in its place.
C16_NonFiniteTime ==
    /\ CalcReturned /\ call.metric.type = "TravelTime"
            /\ DependenciesKnown(call.metric, call.map) =>
          LET dist == SlotOf(call.costs, call.map, call.metric.distance)
              speed == SlotOf(call.costs, call.map, call.metric.speed)
          IN  IF speed = 0
              THEN ret.value = [ok |-> FALSE, error |-> "NonFiniteTime",
                                dist |-> dist, speed |-> speed]
              ELSE ret.value.ok
    /\ CostPassReturned =>
          LET ld == build(call.builder).loader
              zero == \E i \in 1..Len(call.edges) : \E m \in TravelTimesOf(ld) :
                          SlotOf(call.edges[i].costs, ld.metrics_indices, m.speed) = 0
          IN  /\ zero => ~ret.value.ok /\ ret.value.error = "NonFiniteTime"
              /\ ret.value.ok =>
                    \A i \in 1..Len(ret.value.value) : \A m \in TravelTimesOf(ld) :
                        SlotOf(ret.value.value[i].costs, ld.metrics_indices, m.speed) # 0

\* calculate_cost_metrics failed on the second of two edges: its distance and
\* its speed are both zero
C16_Witness ==
    /\ CostPassReturned
    /\ Len(call.edges) = 2
    /\ call.edges[1].costs = <<4, 12, 0>>
    /\ call.edges[2].costs = <<0, 0, 0>>
    /\ ret.value = [ok |-> FALSE, error |-> "NonFiniteTime", dist |-> 0, speed |-> 0]

\* C17: a derived cost metric whose calc is given a Metric Index without the
\* name of one of its two dependencies returns UnknownMetric and no value;
\* with both names registered UnsuitDistMetric returns the product of the two
\* slots of its dependencies.
C17_UnknownMetricOrProduct ==
    CalcReturned =>
        /\ ~DependenciesKnown(call.metric, call.map) =>
              ret.value = [ok |-> FALSE, error |-> "UnknownMetric"]
        /\ call.metric.type = "UnsuitDistMetric"
                /\ DependenciesKnown(call.metric, call.map) =>
              /\ ret.value.ok
              /\ 4 * ret.value.value =
                    SlotOf(call.costs, call.map, call.metric.distance)
                        * SlotOf(call.costs, call.map, call.metric.unsuitability)

\* 3.0 metres at unsuitability 0.5 give 1.5
C17_Witness ==
    /\ CalcReturned
    /\ call.metric = UnsuitDistMetric(Distance_, BicycleUnsuitability)
    /\ DependenciesKnown(call.metric, call.map)
    /\ SlotOf(call.costs, call.map, Distance_) = 12
    /\ SlotOf(call.costs, call.map, BicycleUnsuitability) = 2
    /\ ret.value = [ok |-> TRUE, value |-> 6]

-----------------------------------------------------------------------------
(* Properties of the POI classifier and PoiLoader *)

\* the categories in their priority order, each with its table
Priority ==
    << <<"Parks", PARKS_ATTRIBUTES>>, <<"Banks", BANKS_ATTRIBUTES>>,
       <<"Health", HEALTH_ATTRIBUTES>>, <<"Education", EDUCATION_ATTRIBUTES>>,
       <<"Sustenance", SUSTENANCE_ATTRIBUTES>>, <<"Grocery", GROCERY_ATTRIBUTES>>,
       <<"Shops", SHOPS_QUERY>> >>

\* the table has one of the (key, value) tags of the node
Matches(table, tags) == \E k \in DOMAIN tags : <<k, tags[k]>> \in table

ClassifyReturned == call.fn = "identify_type" /\ ret.stage = "returned"

\* C18: identify_type returns the first category, in the order parks, banks,
\* health, education, sustenance, grocery, shops, whose table has one of the
\* (key, value) tags of the node, and None if no table has one; shop=kiosk
\* gives Grocery, leisure=park with amenity=bank gives Parks.
C18_ClassifierPriority ==
    ClassifyReturned =>
        LET tags == call.node.tags
            hits == { i \in 1..Len(Priority) : Matches(Priority[i][2], tags) }
        IN  /\ hits = {} => ret.value = None
            /\ hits # {} =>
                  \E i \in hits : /\ \A j \in hits : i <= j
                                  /\ ret.value = Some(Priority[i][1])
            /\ tags.shop = "kiosk" /\ tags.leisure = Absent /\ tags.amenity = Absent =>
                  ret.value = Some("Grocery")
            /\ tags.leisure = "park" /\ tags.amenity = "bank" =>
                  ret.value = Some("Parks")

\* shop=kiosk, in the grocery and in the shops table, on a node that has a
\* cafe too, is classified by the cafe
C18_Witness ==
    /\ ClassifyReturned
    /\ call.node.tags = [leisure |-> Absent, amenity |-> "cafe", shop |-> "kiosk"]
    /\ ret.value = Some("Sustenance")

PoiLoadReturned == call.fn = "poi_load_graph" /\ ret.stage = "returned"

\* the point lies inside the region of the call, if it names one
InPoiRegion(n) ==
    call.builder.filter_geometry # None =>
        /\ n.lat > call.builder.filter_geometry[1].south
        /\ n.lat < call.builder.filter_geometry[1].north

Abs(x) == IF x >= 0 THEN x ELSE 0 - x

\* C19: PoiLoader::load_graph emits a record for a point entity iff the point
\* lies inside the bounding region (when one is set) and identify_type gives
\* it a category; the record names a reference node at the least planar
\* distance and that distance, not squared; a pharmacy in the region becomes
\* a Health POI.
C19_PoiRecords ==
    PoiLoadReturned =>
        LET refs == call.builder.nodes_to_match[1]
            emitted == { k \in 1..Len(call.nodes) :
                            InPoiRegion(call.nodes[k])
                                /\ identify_type(call.nodes[k]) # None }
        IN  /\ Len(ret.value) = Cardinality(emitted)
            /\ { ret.value[i].osm_id : i \in 1..Len(ret.value) }
                    = { call.nodes[k].id : k \in emitted }
            /\ \A i \in 1..Len(ret.value) :
                  LET poi == ret.value[i]
                  IN  /\ \E r \in 1..Len(refs) :
                            /\ poi.nearest_osm_node = refs[r].osm_id
                            /\ poi.dist_to_nearest = Abs(refs[r].lat - poi.lat)
                            /\ \A q \in 1..Len(refs) :
                                  Abs(refs[q].lat - poi.lat) >= poi.dist_to_nearest
                      /\ \A k \in emitted :
                            call.nodes[k].id = poi.osm_id
                                /\ call.nodes[k].tags.amenity = "pharmacy"
                                /\ call.nodes[k].tags.leisure = Absent
                            => poi.poi_type = "Health"

\* of a bench, a pharmacy and a second pharmacy outside the region, the first
\* pharmacy alone became a POI, 2 m from the reference node 10
C19_Witness ==
    /\ PoiLoadReturned
    /\ call.builder.filter_geometry = Some([south |-> 0, north |-> 5])
    /\ Len(call.nodes) = 3
    /\ call.nodes[1].tags.amenity = "bench"
    /\ call.nodes[2].tags.amenity = "pharmacy"
    /\ call.nodes[3].tags.amenity = "pharmacy"
    /\ ret.value = << [ osm_id |-> 2, lat |-> 4, long |-> 0, nearest_osm_node |-> 10,
                         dist_to_nearest |-> 2, poi_type |-> "Health" ] >>

-----------------------------------------------------------------------------
(* Properties of add_nearest_node_to_geo_df *)

NearestReturned ==
    /\ call.fn = "add_nearest_node_to_geo_df"
    /\ ret.stage = "returned"
    /\ ret.value.result = "Ok"

\* the distance of the projected points of two rows
ProjectedDistance(a, b) ==
    Abs(transform(call.target_crs, to_radians(a.lat))
            - transform(call.target_crs, to_radians(b.lat)))

\* C20: add_nearest_node_to_geo_df returns the query frame with the same rows
\* and unchanged original columns plus, for every query row, the osm_id of a
\* reference row whose projected point is nearest to the projected query
\* point and the distance to it; a query at the location of a reference
\* point gets the distance zero.
C20_NearestNodeColumns ==
    NearestReturned =>
        LET df == ret.value.df
            refs == call.nodes_to_match
        IN  /\ Len(df) = Len(call.geo_df)
            /\ \A k \in 1..Len(df) :
                  LET query == call.geo_df[k]
                  IN  /\ DOMAIN df[k] = DOMAIN query
                            \cup {"nearest_node_osm_id", "nearest_node_distance"}
                      /\ \A c \in DOMAIN query : df[k][c] = query[c]
                      /\ \E r \in 1..Len(refs) :
                            /\ df[k]["nearest_node_osm_id"] = refs[r].osm_id
                            /\ df[k]["nearest_node_distance"]
                                    = ProjectedDistance(refs[r], query)
                            /\ \A q \in 1..Len(refs) :
                                  ProjectedDistance(refs[q], query)
                                      >= ProjectedDistance(refs[r], query)
                      /\ (\E r \in 1..Len(refs) : refs[r].lat = query.lat) =>
                            df[k]["nearest_node_distance"] = 0

\* projected to EPSG:4839, the query at latitude 0 lies on the reference row 1
\* and the query at latitude 3 six metres from the reference row 3
C20_Witness ==
    /\ NearestReturned
    /\ call.target_crs = 4839
    /\ Len(call.nodes_to_match) = 3
    /\ Len(call.geo_df) = 2
    /\ call.geo_df[1].lat = 0 /\ call.geo_df[2].lat = 3
    /\ ret.value.df[1]["nearest_node_osm_id"] = 1
    /\ ret.value.df[1]["nearest_node_distance"] = 0
    /\ ret.value.df[2]["nearest_node_osm_id"] = 3
    /\ ret.value.df[2]["nearest_node_distance"] = 6

-----------------------------------------------------------------------------
(* Properties of get_bbbike_source *)

SourceReturned == call.fn = "get_bbbike_source" /\ ret.stage = "returned"

\* two names that differ at most in the case of their letters
SameIgnoringCase(a, b) ==
    /\ Len(a) = Len(b)
    /\ \A i \in 1..Len(a) :
        \/ a[i] = b[i]
        \/ \E j \in 1..26 : {a[i], b[i]} = {AsciiUpper[j], AsciiLower[j]}

\* the catalogue entries a requested name stands for
KnownAs(name) == { k \in 1..Len(CITIES) : SameIgnoringCase(CITIES[k], name) }

\* the directory and file stem of the download: the catalogue spelling, NewYork
\* for NewYorkCity
UrlSpelling(city) ==
    IF city = <<"N","e","w","Y","o","r","k","C","i","t","y">>
    THEN <<"N","e","w","Y","o","r","k">>
    ELSE city

\* C21: get_bbbike_source matches the name against the catalogue without regard
\* to case. A known name gives the filename lowercase(name) + ".osm.pbf" and the
\* URL base/City/City.osm.pbf in the catalogue spelling (NewYork/NewYork for
\* NewYorkCity); a name the catalogue does not hold gives SourceNotFoundError
\* carrying the requested name.
C21_BbbikeSource ==
    SourceReturned =>
        LET name == call.city_name
        IN  IF KnownAs(name) # {}
            THEN \A k \in KnownAs(name) :
                    ret.value =
                        [ result |-> "Ok",
                          filename |-> to_lowercase(name) \o suffix,
                          url |-> base_url \o <<"/">> \o UrlSpelling(CITIES[k])
                                    \o <<"/">> \o UrlSpelling(CITIES[k]) \o suffix ]
            ELSE ret.value = [ result |-> "Err", source_name |-> name ]

\* NEWYORKCITY, spelled unlike the catalogue, was resolved
C21_Witness ==
    /\ SourceReturned
    /\ call.city_name = <<"N","E","W","Y","O","R","K","C","I","T","Y">>
    /\ ret.value.result = "Ok"

-----------------------------------------------------------------------------
(* Properties of load_graph *)

Range(f) == { f[x] : x \in DOMAIN f }

Accepted(w) == ~is_invalid(loader.edge_filter, pbf.ways[w].tags)

\* (source, dest) of the edges of a list, in order
Endpoints(es) == [ i \in 1..Len(es) |-> <<es[i].source, es[i].dest>> ]

\* n_i -> n_(i+1) for each consecutive pair, followed by n_(i+1) -> n_i iff the
\* way is not one-way
ExpectedEndpoints(way) ==
    LET ns == way.nodes
    IN  IF way_is_one_way(loader, way)
        THEN [ j \in 1..(Len(ns) - 1) |-> <<ns[j], ns[j + 1]>> ]
        ELSE [ j \in 1..(2 * (Len(ns) - 1)) |->
                 IF j % 2 = 1 THEN <<ns[(j + 1) \div 2], ns[(j + 1) \div 2 + 1]>>
                 ELSE <<ns[j \div 2 + 1], ns[j \div 2]>> ]

\* C2: process_way of an accepted way [n_0..n_k] returns exactly the forward
\* edge of each consecutive pair and, iff the way is not one-way, its reverse
\* edge, (node-count - 1) x (1 if one-way else 2) edges in all; a rejected way
\* returns no edge.
C2_ProcessWayEdges ==
    \A w \in DOMAIN returned :
        LET way == pbf.ways[w]
        IN  IF Accepted(w)
            THEN /\ Endpoints(returned[w]) = ExpectedEndpoints(way)
                 /\ Len(returned[w]) =
                        (Len(way.nodes) - 1) * (IF way_is_one_way(loader, way) THEN 1 ELSE 2)
            ELSE returned[w] = <<>>

\* the bidirectional way [1,2,3] returned 1->2, 2->1, 2->3, 3->2
C2_Witness ==
    \E w \in DOMAIN returned :
        /\ pbf.ways[w].nodes = <<1, 2, 3>>
        /\ Accepted(w)
        /\ ~way_is_one_way(loader, pbf.ways[w])
        /\ Endpoints(returned[w]) = << <<1, 2>>, <<2, 1>>, <<2, 3>>, <<3, 2>> >>

\* forward-only by the tags: an explicit yes or true, or no explicit no or
\* false on a motorway, a roundabout or a circular junction
ForwardOnlyByTags(tags) ==
    \/ tags.oneway \in {"yes", "true"}
    \/ /\ tags.oneway \notin {"no", "false"}
       /\ \/ tags.highway = "motorway"
          \/ tags.junction \in {"roundabout", "circular"}

OnlyMotorway(tags) == tags = Tags("motorway", Absent, Absent, Absent)

\* C11: oneway=yes or true makes a way forward-only; oneway=no or false makes
\* it bidirectional even on a motorway, roundabout or circular junction; with
\* any other or no oneway value it is forward-only iff highway=motorway or
\* junction is roundabout or circular. A way [X,Y] tagged only
\* highway=motorway returns the single edge X->Y under the Car filter and no
\* edge under the Bicycle filter.
C11_OneWayStatus ==
    ~loader.reverse_edges =>
        \A w \in DOMAIN returned :
            LET way == pbf.ways[w]
                segments == Len(way.nodes) - 1
            IN  /\ Accepted(w) =>
                     Len(returned[w]) =
                        IF ForwardOnlyByTags(way.tags) THEN segments ELSE 2 * segments
                /\ OnlyMotorway(way.tags) /\ Len(way.nodes) = 2 =>
                     /\ loader.edge_filter = "car" =>
                            Endpoints(returned[w]) = << <<way.nodes[1], way.nodes[2]>> >>
                     /\ loader.edge_filter = "bicycle" => returned[w] = <<>>

\* a motorway tagged oneway=no returned both directions to a car loader
C11_Witness ==
    /\ ~loader.reverse_edges
    /\ loader.edge_filter = "car"
    /\ \E w \in DOMAIN returned :
        /\ pbf.ways[w].tags.highway = "motorway"
        /\ pbf.ways[w].tags.oneway = "no"
        /\ Endpoints(returned[w]) = << <<1, 2>>, <<2, 1>> >>

\* n_i -> n_(i+1) followed by n_(i+1) -> n_i, for each consecutive pair
BothDirections(ns) ==
    [ j \in 1..(2 * (Len(ns) - 1)) |->
        IF j % 2 = 1 THEN <<ns[(j + 1) \div 2], ns[(j + 1) \div 2 + 1]>>
        ELSE <<ns[j \div 2 + 1], ns[j \div 2]>> ]

PresentIds == { pbf.nodes[i].id : i \in 1..Len(pbf.nodes) }

\* an accepted way refers to a node id that no point entity of the extract has
AbsentNodeReferenced ==
    \E w \in 1..Len(pbf.ways) :
        Accepted(w) /\ Range(pbf.ways[w].nodes) \ PresentIds # {}

\* C4: a way that refers to a node id absent from the extract never makes
\* load_graph fail, with or without a bounding region, and no edge to or from
\* the absent node is in the output.
C4_AbsentNodeNeverFails ==
    AbsentNodeReferenced =>
        /\ failure # "MissingNode"
        /\ pc = "done" =>
            \A i \in 1..Len(edges) :
                edges[i].source < Len(nodes) /\ edges[i].dest < Len(nodes)

\* every node id of every accepted way
AcceptedIds ==
    UNION { Range(pbf.ways[w].nodes) : w \in { v \in 1..Len(pbf.ways) : Accepted(v) } }

HandedOff ==
    pc \in {"node_pass", "refilter", "rename", "cost", "dedup", "prune", "done",
            "panicked"}

\* C5: the id set the orchestrator holds before the node pass contains every
\* node id (the last one too) of every way the filter accepted, and no other
\* id, whatever the interleaving of the process_way calls and the collector.
C5_IdSetComplete == HandedOff => id_set = AcceptedIds

\* the set was handed over after two accepted ways were processed; the last
\* node of one of them is in no other position of any way
C5_Witness ==
    /\ pc = "node_pass"
    /\ Len(pbf.ways) = 2
    /\ Accepted(1) /\ Accepted(2)
    /\ pbf.ways[1].nodes = <<1, 2>>
    /\ pbf.ways[2].nodes = <<1, 3>>
    /\ id_set = {1, 2, 3}

NodePassDone ==
    pc \in {"refilter", "rename", "cost", "dedup", "prune", "done", "panicked"}

Renamed == pc \in {"cost", "dedup", "prune", "done"}

RegionSet == loader.filter_geometry # None

\* no region is configured, or the latitude lies strictly inside the region
InsideRegion(lat) ==
    RegionSet =>
        lat > loader.filter_geometry[1].south /\ lat < loader.filter_geometry[1].north

RetainedIds == { nodes[i].osm_id : i \in 1..Len(nodes) }

\* the edges the way pass collected, in the order of the ways
RECURSIVE ReturnedFrom(_)
ReturnedFrom(w) ==
    IF w > Len(pbf.ways) THEN <<>>
    ELSE (IF w \in DOMAIN returned THEN returned[w] ELSE <<>>) \o ReturnedFrom(w + 1)

\* the (source, dest) id pairs of the collected edges whose endpoints were
\* both retained
SurvivingPairs ==
    { <<e.source, e.dest>> :
        e \in { x \in Range(ReturnedFrom(1)) :
                    x.source \in RetainedIds /\ x.dest \in RetainedIds } }

\* C14: the node pass retains a point entity iff its id is in the collected id
\* set and, when a bounding region is configured, the point lies inside it;
\* a node no accepted way refers to is never retained; the dense index of a
\* retained node is its position in the node list.
C14_NodePassRetention ==
    NodePassDone =>
        /\ \A k \in 1..Len(pbf.nodes) :
              (pbf.nodes[k].id \in RetainedIds)
                  <=> (pbf.nodes[k].id \in id_set /\ InsideRegion(pbf.nodes[k].lat))
        /\ RetainedIds \subseteq AcceptedIds
        /\ \A i, j \in 1..Len(nodes) : nodes[i].osm_id = nodes[j].osm_id => i = j
        /\ Renamed =>
              /\ \A i \in 1..Len(edges) :
                    edges[i].source < Len(nodes) /\ edges[i].dest < Len(nodes)
              /\ { <<nodes[edges[i].source + 1].osm_id, nodes[edges[i].dest + 1].osm_id>> :
                        i \in 1..Len(edges) } = SurvivingPairs

\* of the points 1, 2, 3 only 2 is retained: 1 lies outside the region and no
\* way refers to 3
C14_Witness ==
    /\ pc = "done"
    /\ loader.filter_geometry = Some([south |-> 2, north |-> 10])
    /\ PresentIds = {1, 2, 3}
    /\ id_set = {1, 2}
    /\ nodes = << [osm_id |-> 2, lat |-> 4, long |-> 0] >>

Count(e, es) == Cardinality({ i \in 1..Len(es) : es[i] = e })

\* C15: with a bounding region, load_graph drops exactly the edges with a
\* source or destination id that did not survive the node pass and keeps every
\* edge whose two endpoints survived; no returned edge refers to a node that
\* is not in the returned node list.
C15_EdgeRefilter ==
    RegionSet =>
        /\ pc = "rename" =>
              /\ Range(edges) \subseteq Range(ReturnedFrom(1))
              /\ \A e \in Range(ReturnedFrom(1)) :
                    Count(e, edges) =
                        IF e.source \in RetainedIds /\ e.dest \in RetainedIds
                        THEN Count(e, ReturnedFrom(1)) ELSE 0
        /\ pc = "done" =>
              \A i \in 1..Len(edges) :
                  edges[i].source < Len(nodes) /\ edges[i].dest < Len(nodes)

\* of the edges of the way [1,2,3] those of the segment 1-2 are kept: node 3
\* lies outside the region
C15_Witness ==
    /\ RegionSet
    /\ pc = "rename"
    /\ Endpoints(ReturnedFrom(1)) = << <<1, 2>>, <<2, 1>>, <<2, 3>>, <<3, 2>> >>
    /\ RetainedIds = {1, 2}
    /\ Endpoints(edges) = << <<1, 2>>, <<2, 1>> >>

\* the stages of load_graph, in the order of its statements
Stages ==
    << "way_pass", "recv", "node_pass", "refilter", "rename", "cost", "dedup",
       "prune", "done" >>

StageRank(stage) == CHOOSE k \in 1..Len(Stages) : Stages[k] = stage

\* the raw ids of the two ends of a renumbered edge lie next to each other on
\* an accepted way, and the edge's tag-metric slots hold that way's values
TagSlotsFinal(e) ==
    \E w \in 1..Len(pbf.ways) :
        /\ Accepted(w)
        /\ \E i \in 1..(Len(pbf.ways[w].nodes) - 1) :
                {pbf.ways[w].nodes[i], pbf.ways[w].nodes[i + 1]}
                    = {nodes[e.source + 1].osm_id, nodes[e.dest + 1].osm_id}
        /\ \A k \in 1..Len(loader.tag_metrics) :
                e.costs[loader.metrics_indices[Metric_name(loader.tag_metrics[k])] + 1]
                    = TagMetric_calc(loader.tag_metrics[k], pbf.ways[w].tags)

\* the edge's node-metric slots hold the values of its two nodes
NodeSlotsFinal(e) ==
    \A k \in 1..Len(loader.node_metrics) :
        e.costs[loader.metrics_indices[Metric_name(loader.node_metrics[k])] + 1]
            = NodeMetric_calc(loader.node_metrics[k], nodes[e.source + 1],
                              nodes[e.dest + 1])

BaseSlotsFinal(e) ==
    /\ e.source < Len(nodes)
    /\ e.dest < Len(nodes)
    /\ TagSlotsFinal(e)
    /\ NodeSlotsFinal(e)

\* one step of a run keeps to the order of the stages: the stage advances by
\* one (the re-filtering is left out without a region; a panic ends the run in
\* the renumbering or in the derived-cost pass), and every piece of the state
\* is written in its own stage only
StageStep ==
    /\ pc' # pc =>
            \/ pc' = "panicked" /\ pc \in {"rename", "cost"}
            \/ pc' # "panicked" /\ StageRank(pc') = StageRank(pc) + 1
            \/ pc = "node_pass" /\ pc' = "rename" /\ ~RegionSet
    /\ (todo' # todo \/ inflight' # inflight \/ returned' # returned) => pc = "way_pass"
    /\ (set_channel' # set_channel \/ id_set' # id_set) => pc = "recv"
    /\ (nodes' # nodes \/ skipped_nodes' # skipped_nodes) => pc = "node_pass"
    /\ edges' # edges =>
            pc \in {"way_pass", "refilter", "rename", "cost", "dedup", "prune"}

\* C23: the stages of a run are strictly ordered way pass, id-set handoff, node
\* pass, geometric re-filtering, renumbering with node metrics, derived-cost
\* pass, deduplication, pruning; when the derived costs are computed, and from
\* then on, every tag-metric and node-metric slot of every edge holds its final
\* value.
C23_StagesOrdered ==
    /\ [](pc \in {"cost", "dedup", "prune", "done"} =>
            \A i \in 1..Len(edges) : BaseSlotsFinal(edges[i]))
    /\ [][StageStep]_vars

\* a run with a bounding region went through every stage and returned an edge
\* whose derived cost is not 0.0
C23_Witness ==
    /\ pc = "done"
    /\ RegionSet
    /\ loader.cost_metrics # <<>>
    /\ \E i \in 1..Len(edges) :
            edges[i].costs[loader.metrics_indices[Metric_name(loader.cost_metrics[1])] + 1] > 0

\* a step of the orchestrator in the way pass, and in the stages after the
\* receive
WayPassStep ==
    \/ \E w \in 1..Len(pbf.ways) : RejectWay(w) \/ WayLoopStep(w) \/ WayReturn(w)
    \/ DropSender

\* (DeleteDuplicateEdges has no condition but its stage)
LaterStageStep ==
    \/ NodePassStep \/ RefilterEdges \/ RenameNodeIds \/ RenameNodeIdsPanic
    \/ CostMetricsStep \/ CostMetricsPanic \/ DeleteDominatedEdges

\* the collector sends its set when it ends, and it ends once
SendsOnce ==
    /\ set_channel' # set_channel /\ Len(set_channel') > Len(set_channel) =>
            /\ collector.pc = "collecting" /\ collector'.pc = "done"
            /\ set_channel = <<>> /\ id_channel = <<>>
    /\ collector.pc = "done" => collector'.pc = "done"

\* C24: under fair scheduling the handoff does not deadlock. Once the way pass
\* is over and the orchestrator dropped id_sender, the collector drains the
\* queued ids and sends the set, exactly once, and the orchestrator's receive
\* returns; in every other stage the orchestrator can take its step whatever
\* the collector does.
C24_HandoffCompletes ==
    /\ (pc = "recv") ~> (pc = "node_pass" /\ id_channel = <<>> /\ collector.pc = "done")
    /\ [][SendsOnce]_vars
    /\ [](pc = "way_pass" => ENABLED WayPassStep)
    /\ [](pc \in {"node_pass", "refilter", "rename", "cost", "prune"} =>
            ENABLED LaterStageStep)

\* two ways were processed, the collector drained the ids of both and ended,
\* and the receive returned the three ids
C24_Witness ==
    /\ pc = "node_pass"
    /\ Len(pbf.ways) = 2
    /\ collector.pc = "done"
    /\ id_channel = <<>>
    /\ set_channel = <<>>
    /\ id_set = {1, 2, 3}

\* the slots the Metric Index assigns to the names of a list of metrics
SlotsOf(metrics) ==
    { loader.metrics_indices[Metric_name(metrics[k])] + 1 : k \in 1..Len(metrics) }

TagSlots == SlotsOf(loader.tag_metrics)
NodeSlots == SlotsOf(loader.node_metrics)
CostSlots == SlotsOf(loader.cost_metrics)

\* the edges a process_way call has pushed so far, or returned
EdgesOfWay(w) ==
    IF w \in DOMAIN inflight THEN inflight[w].edges
    ELSE IF w \in DOMAIN returned THEN returned[w]
    ELSE <<>>

\* every edge of way w holds the way's tag values in the tag-metric slots
\* and 0.0 in every other slot
WayPassSlots(w) ==
    \A i \in 1..Len(EdgesOfWay(w)) :
        LET costs == EdgesOfWay(w)[i].costs
        IN  /\ Len(costs) = internal_metric_count(loader)
            /\ \A k \in 1..Len(loader.tag_metrics) :
                    costs[loader.metrics_indices[Metric_name(loader.tag_metrics[k])] + 1]
                        = TagMetric_calc(loader.tag_metrics[k], pbf.ways[w].tags)
            /\ \A slot \in 1..Len(costs) : slot \notin TagSlots => costs[slot] = 0

\* the slots not yet computed hold 0.0
UncomputedSlotsZero ==
    /\ \A w \in 1..Len(pbf.ways) : WayPassSlots(w)
    /\ pc \in {"way_pass", "recv", "node_pass", "refilter", "rename"} =>
            \A i \in 1..Len(edges) : \A slot \in 1..Len(edges[i].costs) :
                slot \notin TagSlots => edges[i].costs[slot] = 0
    /\ pc = "cost" =>
            \A i \in 1..Len(edges) : \A slot \in 1..Len(edges[i].costs) :
                slot \notin TagSlots \cup NodeSlots => edges[i].costs[slot] = 0

\* the edges of the next state are the edges of this one, position by
\* position, but for the slots given
OnlySlotsWritten(slots) ==
    /\ Len(edges') = Len(edges)
    /\ \A i \in 1..Len(edges) :
            /\ Len(edges'[i].costs) = Len(edges[i].costs)
            /\ \A slot \in 1..Len(edges[i].costs) :
                    slot \notin slots => edges'[i].costs[slot] = edges[i].costs[slot]

\* what a step may write of the cost vectors
SlotFrame ==
    /\ pc = "way_pass" =>
            \/ edges' = edges
            \/ \E w \in DOMAIN returned' : edges' = edges \o returned'[w]
    /\ pc = "rename" /\ pc' = "cost" => OnlySlotsWritten(NodeSlots)
    /\ pc = "cost" /\ pc' = "dedup" =>
            /\ OnlySlotsWritten(CostSlots)
            /\ \A i \in 1..Len(edges) :
                    edges'[i].source = edges[i].source /\ edges'[i].dest = edges[i].dest
    /\ pc \in {"refilter", "dedup", "prune"} =>
            \A i \in 1..Len(edges') : \E j \in 1..Len(edges) : edges'[i] = edges[j]
    /\ pc \in {"recv", "node_pass", "done", "panicked"} => edges' = edges

\* C25: each metric's value is written only to the slot the Metric Index
\* assigns to its name. The way pass writes only tag-metric slots, with the
\* same values on every edge of one way; the node-metric pass changes only
\* node-metric slots; the derived-cost pass changes only derived slots; the
\* re-filtering, the deduplication and the pruning change no cost vector; a
\* slot not yet computed holds 0.0.
C25_SlotFrame ==
    /\ []UncomputedSlotsZero
    /\ [][SlotFrame]_vars

\* a returned edge whose tag, node and derived slot were all written
C25_Witness ==
    /\ pc = "done"
    /\ Len(loader.tag_metrics) = 1 /\ Len(loader.node_metrics) = 1
    /\ Len(loader.cost_metrics) = 1
    /\ \E i \in 1..Len(edges) :
            \A slot \in 1..Len(edges[i].costs) : edges[i].costs[slot] > 0

\* source and dest of every edge are positions of the node list
DenseIndices ==
    \A i \in 1..Len(edges) : edges[i].source < Len(nodes) /\ edges[i].dest < Len(nodes)

\* the renumbering step: the node at the new index of an end of an edge has as
\* osm_id the raw id that end carried
RenumberingStep ==
    pc = "rename" /\ pc' = "cost" =>
        /\ Len(edges') = Len(edges)
        /\ nodes' = nodes
        /\ \A i \in 1..Len(edges) :
                /\ edges'[i].source < Len(nodes)
                /\ edges'[i].dest < Len(nodes)
                /\ nodes[edges'[i].source + 1].osm_id = edges[i].source
                /\ nodes[edges'[i].dest + 1].osm_id = edges[i].dest

\* C28: after rename_node_ids_and_calculate_node_metrics the source and dest of
\* every edge are dense indices smaller than the length of the node list, and
\* the node at that index has as osm_id the raw node id the edge carried
\* before the renumbering.
C28_DenseIndices ==
    /\ [](Renamed => DenseIndices)
    /\ [][RenumberingStep]_vars

\* the region left the nodes 2 and 3; the edge from 2 to 3 became the edge
\* from 0 to 1
C28_Witness ==
    /\ pc = "cost"
    /\ RegionSet
    /\ nodes # <<>>
    /\ [ i \in 1..Len(nodes) |-> nodes[i].osm_id ] = <<2, 3>>
    /\ Endpoints(edges) = << <<0, 1>> >>

\* the edges process_way returns for a way, from the segment at index on
RECURSIVE WayEdges(_, _)
WayEdges(way, index) ==
    IF index >= Len(way.nodes) - 1 THEN <<>>
    ELSE SegmentEdges(loader, way, index) \o WayEdges(way, index + 1)

\* the edges of the accepted ways, way after way in file order
RECURSIVE InFileOrder(_)
InFileOrder(w) ==
    IF w > Len(pbf.ways) THEN <<>>
    ELSE (IF Accepted(w) THEN WayEdges(pbf.ways[w], 0) ELSE <<>>) \o InFileOrder(w + 1)

\* what load_graph makes of the ways when it takes them one by one in file
\* order: the list before the sort, and the list returned
SequentialCosts ==
    LET map == NodeMap(NodePass(loader, AcceptedIds, pbf.nodes).nodes)
        kept == IF RegionSet THEN KeepKnownEndpoints(InFileOrder(1), DOMAIN map)
                ELSE InFileOrder(1)
    IN  CalculateCostMetrics(loader, Rename(loader, kept, map)).value

SequentialResult == delete_dominated_edges(delete_duplicate_edges(SequentialCosts))

\* the same edges, each as often, in any order
SameEdges(a, b) ==
    /\ Len(a) = Len(b)
    /\ \A i \in 1..Len(a) : Count(a[i], a) = Count(a[i], b)

\* C29: the result of a load does not depend on the scheduling of the way
\* pass. In whatever order the ways were processed and their node ids reached
\* the collector, the list handed to the sort holds the edges of the ways
\* taken in file order, and the edge list returned is the one that order
\* gives, element for element; so any two runs on one extract return the same
\* list.
C29_SchedulingIndependent ==
    /\ pc = "dedup" => SameEdges(edges, SequentialCosts)
    /\ pc = "done" =>
            /\ edges = SequentialResult
            /\ nodes = NodePass(loader, AcceptedIds, pbf.nodes).nodes

\* the second way returned before the first: the list about to be sorted is
\* not in file order, and its two ways differ in their costs
C29_Witness ==
    /\ pc = "dedup"
    /\ Len(pbf.ways) = 2
    /\ pbf.ways[1].tags # pbf.ways[2].tags
    /\ Accepted(1) /\ Accepted(2)
    /\ edges # SequentialCosts
    /\ \E i, j \in 1..Len(edges) :
            /\ edges[i].source = edges[j].source /\ edges[i].dest = edges[j].dest
            /\ edges[i].costs # edges[j].costs

NothingParsed ==
    /\ todo = 1..Len(pbf.ways)
    /\ DOMAIN inflight = {}
    /\ DOMAIN returned = {}
    /\ nodes = <<>>

\* C7: an unknown metric dependency name is reported before any parsing of the
\* source starts, that is before the way pass reads any entity.
C7_UnknownMetricBeforeParsing ==
    failure = "UnknownMetric" => NothingParsed

-----------------------------------------------------------------------------
(* Properties of the simplification functions *)

SameEndpoints(a, b) == a.source = b.source /\ a.dest = b.dest

\* a is component-wise <= b
Dominates(a, b) == \A k \in 1..Len(a.costs) : a.costs[k] <= b.costs[k]

\* (source, dest, costs) of a is lexicographically before that of b
KeyOf(e) == <<e.source, e.dest>> \o e.costs
LexLess(x, y) ==
    \E k \in 1..Len(x) :
        /\ x[k] < y[k]
        /\ \A j \in 1..(k - 1) : x[j] = y[j]

Occurs(e, list) == \E j \in 1..Len(list) : list[j] = e

\* C1 as claimed: after dominance pruning no two edges adjacent in the OUTPUT
\* order with equal (source, dest) have one cost vector component-wise <= the
\* other.
C1_NoAdjacentDominanceInOutput ==
    ret.stage = "pruned" =>
        \A i \in 1..(Len(ret.edges) - 1) :
            SameEndpoints(ret.edges[i], ret.edges[i + 1]) =>
                /\ ~Dominates(ret.edges[i], ret.edges[i + 1])
                /\ ~Dominates(ret.edges[i + 1], ret.edges[i])

\* C1 amended: two edges with equal (source, dest) that are adjacent in the
\* sorted, deduplicated list given to the pruning and that both survive it are
\* not component-wise <= one another.
C1_NoAdjacentDominanceInSortOrder ==
    ret.stage = "pruned" =>
        \A i \in 1..(Len(ret.dedup) - 1) :
            ( /\ SameEndpoints(ret.dedup[i], ret.dedup[i + 1])
              /\ Occurs(ret.dedup[i], ret.edges)
              /\ Occurs(ret.dedup[i + 1], ret.edges) ) =>
                /\ ~Dominates(ret.dedup[i], ret.dedup[i + 1])
                /\ ~Dominates(ret.dedup[i + 1], ret.dedup[i])

\* the pruning removed an edge and kept two neighbours with equal endpoints
C1_Witness ==
    /\ ret.stage = "pruned"
    /\ Len(ret.edges) < Len(ret.dedup)
    /\ \E i \in 1..(Len(ret.dedup) - 1) :
        /\ SameEndpoints(ret.dedup[i], ret.dedup[i + 1])
        /\ Occurs(ret.dedup[i], ret.edges)
        /\ Occurs(ret.dedup[i + 1], ret.edges)

\* C6: after delete_duplicate_edges the list is sorted by (source, dest, cost
\* vector lexicographically) and no two of its edges are identical.
C6_SortedAndDistinct ==
    ret.stage = "dedup" =>
        \A i, j \in 1..Len(ret.edges) :
            i < j => LexLess(KeyOf(ret.edges[i]), KeyOf(ret.edges[j]))

\* an unsorted list with two equal edges that were not neighbours was simplified
C6_Witness ==
    /\ ret.stage = "dedup"
    /\ Len(call.edges) = 3
    /\ call.edges[1] = call.edges[3]
    /\ LexLess(KeyOf(call.edges[2]), KeyOf(call.edges[1]))
    /\ Len(ret.edges) = 2

Pruned == call.fn = "simplify" /\ ret.stage = "pruned"

\* C26: every edge delete_dominated_edges removes is dominated by an edge that
\* survives: the output holds an edge with the same (source, dest) whose cost
\* vector is component-wise <= that of the removed edge, also when the
\* neighbour before the removed edge was removed itself.
C26_RemovedEdgesDominated ==
    Pruned =>
        \A i \in 1..Len(ret.dedup) :
            ~Occurs(ret.dedup[i], ret.edges) =>
                \E j \in 1..Len(ret.edges) :
                    /\ SameEndpoints(ret.edges[j], ret.dedup[i])
                    /\ Dominates(ret.edges[j], ret.dedup[i])

\* two neighbours in a row were removed: the second one's neighbour before it
\* did not survive
C26_Witness ==
    /\ Pruned
    /\ Len(ret.dedup) = 3
    /\ Len(ret.edges) = 1
    /\ ret.edges[1] = ret.dedup[1]

\* a is b with some of its elements left out, the others in their order
RECURSIVE IsSubsequence(_, _)
IsSubsequence(a, b) ==
    IF a = <<>> THEN TRUE
    ELSE IF b = <<>> THEN FALSE
    ELSE IF Head(a) = Head(b) THEN IsSubsequence(Tail(a), Tail(b))
    ELSE IsSubsequence(a, Tail(b))

PairsOf(es) == { <<es[i].source, es[i].dest>> : i \in 1..Len(es) }

\* C27: deduplication and pruning never disconnect a node pair. The output of
\* delete_dominated_edges is a subsequence of its input in the input's order,
\* the first edge of every (source, dest) group of the sorted list survives,
\* and the set of (source, dest) pairs after the pruning is the one before the
\* deduplication.
C27_NodePairsKept ==
    Pruned =>
        /\ IsSubsequence(ret.edges, ret.dedup)
        /\ \A i \in 1..Len(ret.dedup) :
                (i = 1 \/ ~SameEndpoints(ret.dedup[i - 1], ret.dedup[i])) =>
                    Occurs(ret.dedup[i], ret.edges)
        /\ PairsOf(ret.edges) = PairsOf(call.edges)

\* a list of two node pairs lost a duplicate; the only edge of the second
\* pair follows an edge of the first pair with costs <= its own, and survives
C27_Witness ==
    /\ Pruned
    /\ Len(call.edges) = 3
    /\ call.edges[2] = call.edges[3]
    /\ Cardinality(PairsOf(call.edges)) = 2
    /\ Len(ret.dedup) = 2
    /\ Dominates(ret.dedup[1], ret.dedup[2])
    /\ Len(ret.edges) = 2

-----------------------------------------------------------------------------
(* Properties of the metric index and of the emitted cost vectors *)

\* the registered metrics in registration order: tag, then node, then cost
RegisteredMetrics(builder) ==
    OrEmpty(builder.tag_metrics) \o OrEmpty(builder.node_metrics)
        \o OrEmpty(builder.cost_metrics)

InternalOf(builder) ==
    IF builder.internal_metrics = None THEN {} ELSE builder.internal_metrics[1]

\* the values of the slots 0, 1, 2, ... whose metric is not internal
RECURSIVE InSlotOrder(_, _, _, _)
InSlotOrder(costs, metrics, internal, k) ==
    IF k > Len(metrics) THEN <<>>
    ELSE IF Metric_name(metrics[k]) \in internal
         THEN InSlotOrder(costs, metrics, internal, k + 1)
         ELSE <<costs[k]>> \o InSlotOrder(costs, metrics, internal, k + 1)

\* C3: Edge::costs returns the cost values ascending by the slot assigned at
\* build time (tag metrics, then node metrics, then cost metrics), leaving out
\* exactly the components whose metric name is internal.
C3_CostsInSlotOrder ==
    (call.fn = "costs" /\ ret.stage = "returned") =>
        ret.value = InSlotOrder(call.costs, RegisteredMetrics(call.builder),
                                InternalOf(call.builder), 1)

\* C30: for every loader build returns, metric_count() is the length of the
\* vector Edge::costs returns for an edge of the loader, and the subtraction in
\* metric_count does not go below zero, also when internal_metrics holds a name
\* that is no registered metric.
C30_MetricCountIsCostsLength ==
    (call.fn = "metric_count" /\ ret.stage = "returned") =>
        /\ ret.count.result = "Ok"
        /\ ret.count.value = Len(ret.costs)
        /\ Cardinality(build(call.builder).loader.internal_metrics)
                <= internal_metric_count(build(call.builder).loader)

-----------------------------------------------------------------------------
(* Properties of the edge filters *)

FilterReturned(f) ==
    call.fn = "is_invalid" /\ call.filter = f /\ ret.stage = "returned"

\* C8 as claimed: the pedestrian filter is invalid if walking=no; else valid if
\* a sidewalk tag other than "no" exists; else invalid exactly when highway is
\* one of the nine listed values or absent.
C8_WalkingFilterAsClaimed ==
    FilterReturned("walking") =>
        ret.value =
            IF call.tags.walking = "no" THEN TRUE
            ELSE IF call.tags.sidewalk \notin {Absent, "no"} THEN FALSE
            ELSE call.tags.highway \in
                    { "motorway", "motorway_link", "proposed", "construction",
                      "abandoned", "platform", "raceway", "trunk", "trunk_link",
                      Absent }

\* C8 amended: as claimed, with highway=motor also invalid.
C8_WalkingFilter ==
    FilterReturned("walking") =>
        ret.value =
            IF call.tags.walking = "no" THEN TRUE
            ELSE IF call.tags.sidewalk \notin {Absent, "no"} THEN FALSE
            ELSE call.tags.highway \in
                    { "motorway", "motorway_link", "proposed", "construction",
                      "abandoned", "platform", "raceway", "trunk", "trunk_link",
                      "motor", Absent }

\* a motorway with a sidewalk is accepted by the pedestrian filter
C8_Witness ==
    /\ FilterReturned("walking")
    /\ call.tags.highway = "motorway"
    /\ call.tags.sidewalk = "both"
    /\ call.tags.walking = Absent
    /\ ret.value = FALSE

\* C9: the bicycle filter is invalid if bicycle=no (even with a cycleway tag);
\* else valid if a cycleway tag exists, or a bicycle tag other than "no", or a
\* sidewalk tag other than "no"; else invalid exactly when highway is one of
\* the sixteen listed values or absent.
C9_BicycleFilter ==
    FilterReturned("bicycle") =>
        ret.value =
            IF call.tags.bicycle = "no" THEN TRUE
            ELSE IF \/ call.tags.cycleway # Absent
                    \/ call.tags.bicycle \notin {Absent, "no"}
                    \/ call.tags.sidewalk \notin {Absent, "no"} THEN FALSE
            ELSE call.tags.highway \in
                    { "motorway", "motorway_link", "trunk", "trunk_link", "steps",
                      "corridor", "elevator", "escalator", "raceway", "rest_area",
                      "construction", "service", "proposed", "abandoned",
                      "platform", "motor", Absent }

\* bicycle=no wins over a cycleway tag
C9_Witness ==
    /\ FilterReturned("bicycle")
    /\ call.tags.bicycle = "no"
    /\ call.tags.cycleway = "lane"
    /\ call.tags.highway = "residential"
    /\ ret.value = TRUE

\* C10: the car filter depends on the highway tag alone: invalid exactly when
\* highway is one of the seventeen listed values or absent.
C10_CarFilter ==
    FilterReturned("car") =>
        ret.value =
            (call.tags.highway \in
                { "footway", "cycleway", "path", "pedestrian", "steps", "track",
                  "corridor", "elevator", "escalator", "proposed", "construction",
                  "bridleway", "abandoned", "platform", "raceway", "rest_area",
                  "service", Absent })

\* a service road is rejected and a residential road with bicycle=no, walking=no
\* is accepted
C10_Witness ==
    /\ FilterReturned("car")
    /\ \/ call.tags.highway = "service" /\ ret.value = TRUE
       \/ /\ call.tags.highway = "residential"
          /\ call.tags.bicycle = "no"
          /\ call.tags.walking = "no"
          /\ ret.value = FALSE

=============================================================================
